---- MODULE Spec2Model ----
(***************************************************************************)
(* Model of scripts/github-utils/fetch-issue-complete.py: the retry        *)
(* decorator retry_on_transient_errors, the three functions it decorates   *)
(* (fetch_issue_html, _fetch_comments_page, _download_file) and the        *)
(* paginated comment fetch fetch_comments_html, the attachment downloader  *)
(* (download_attachment, download_attachments) and the run (main, run).    *)
(*                                                                         *)
(* The network is the environment: every urlopen call draws one Response.  *)
(* A Response is                                                           *)
(*   kind "ok"       HTTP 200 whose body decodes as JSON                   *)
(*   kind "badjson"  HTTP 200 whose body is not valid JSON                 *)
(*   kind "http"     urlopen raises HTTPError(code)                        *)
(*   kind "urlerror" urlopen raises URLError (DNS, refused, ...)           *)
(*   kind "timeout"  urlopen/read raises a bare TimeoutError               *)
(*   kind "incomplete" read raises http.client.IncompleteRead              *)
(* An exception is a record; its field id is the number of the call that   *)
(* raised it within one wrapper invocation (the object's identity).        *)
(***************************************************************************)
EXTENDS Integers, Sequences, FiniteSets, TLC

VARIABLES
    fn,             \* the decorated function the wrapper is running
    wpc,            \* wrapper position: "idle", "running", "returned", "raised"
    attempt,        \* wrapper local: loop variable of line 51
    retry_delay,    \* wrapper local: line 49
    last_exception, \* wrapper local: line 48
    requests,       \* call log of one decorated call: the network's answer to each call
    waits,          \* time.sleep arguments of this wrapper invocation, in order
    wresult,        \* value returned by the wrapper (when wpc = "returned")
    wraised,        \* exception raised by the wrapper (when wpc = "raised")
    fpc,            \* fetch_comments_html position: "idle", "loop", "call", "returned", "raised"
    page,           \* fetch_comments_html local: line 368
    all_comments,   \* fetch_comments_html local: line 367
    backend,        \* pages the comments API has served so far: page number -> Response
    http_log,       \* every comments request: [page, ok, slept]
    fresult,        \* what the caller of fetch_comments_html receives on return
    fraised,        \* the exception the caller of fetch_comments_html receives
    issue_data,     \* the issue_data dict of run: _attachments, _comments, _download_metadata
    dl,             \* download_attachments: position, locals and counters
    fs,             \* the file system below the output directory: dirs and files
    run,            \* main and run: the command line, the phase, the exit code
    parser,         \* extract_attachments_from_html: the markup, the AttachmentExtractor
    stats,          \* collect-issue-stats.py: the open issues, the one being classified, the counts
    fmt,            \* one call of format_file_size: size_bytes and the text returned
    matching,       \* fetch-issues-matching.py: main, its issues and the commands it runs
    gh              \* collect-issue-stats.py: one call of run_gh_command

wvars == <<fn, wpc, attempt, retry_delay, last_exception, requests, waits, wresult, wraised>>
fvars == <<fpc, page, all_comments, backend, http_log, fresult, fraised>>
dvars == <<issue_data, dl, fs>>
gvars == <<matching, gh>>
xvars == <<parser, stats, fmt, matching, gh>>
vars == <<fn, wpc, attempt, retry_delay, last_exception, requests, waits, wresult, wraised,
          fpc, page, all_comments, backend, http_log, fresult, fraised,
          issue_data, dl, fs, run, parser, stats, fmt, matching, gh>>

----------------------------------------------------------------------------
(* Bounds of the model *)

\* Largest number of comments a page of the comments API carries.
MaxPageItems == 2
\* Largest page number fetch_comments_html is followed to.
MaxPages == 3
\* Largest number of attachments of one batch of downloads (and of comments).
MaxBatch == 2
\* Largest number of labels of an issue whose priority is extracted.
MaxLabels == 2
\* Largest number of tokens of the markup given to the extractor.
MaxTags == 2
\* Largest length of the path of the URL a file name is extracted from.
MaxPathLen == 5
\* Largest length of an attachment URL whose query string is cut off.
MaxUrlLen == 3
\* issues in the answer of `gh issue list`
MaxIssues == 3

----------------------------------------------------------------------------
(* Retry configuration, lines 29-31 *)

MAX_RETRIES == 5
INITIAL_RETRY_DELAY == 1
RETRY_BACKOFF_MULTIPLIER == 2

\* line 252: the least length of a GitHub token
MinTokenLength == 10

\* line 57: e.code in (502, 503, 504)
TransientCodes == {502, 503, 504}

\* HTTP error statuses the environment may answer with.
HTTPCodes == {401, 403, 404, 500, 502, 503, 504}

DecoratedFunctions == {"fetch_issue_html", "_fetch_comments_page", "_download_file"}

----------------------------------------------------------------------------
(* Values *)

NoException == [type |-> "None", code |-> 0, id |-> 0, msg |-> "", cause |-> "None"]
NoValue == [data |-> <<>>, has_next |-> FALSE, from |-> 0]

Exc(type, code, id) == [type |-> type, code |-> code, id |-> id, msg |-> "", cause |-> "None"]

\* raise RuntimeError(msg) from e
RuntimeErrorFrom(msg, e) ==
    [type |-> "RuntimeError", code |-> e.code, id |-> e.id, msg |-> msg, cause |-> e.type]

Iota(n) == [i \in 1..n |-> i]

Resp(kind, code, body, link_next) ==
    [kind |-> kind, code |-> code, body |-> body, link_next |-> link_next]

FailureResponses ==
    {Resp("http", c, <<>>, FALSE) : c \in HTTPCodes}
        \cup {Resp("urlerror", 0, <<>>, FALSE), Resp("timeout", 0, <<>>, FALSE),
              Resp("badjson", 200, <<>>, FALSE)}

\* Every answer of the network to one urlopen call.
Responses ==
    {Resp("ok", 200, Iota(n), nx) : n \in 0..MaxPageItems, nx \in BOOLEAN}
        \cup FailureResponses

----------------------------------------------------------------------------
(* The decorated functions: what one call returns or raises, given the      *)
(* network's answer r to its urlopen call; id is the call's number.         *)

Returned(data, has_next, id) ==
    [raised |-> FALSE, exc |-> NoException,
     value |-> [data |-> data, has_next |-> has_next, from |-> id]]
Raised(e) == [raised |-> TRUE, exc |-> e, value |-> NoValue]

\* What urllib.request.urlopen raises for a failure Response.
UrlopenError(r, id) ==
    CASE r.kind = "http" -> Exc("HTTPError", r.code, id)
      [] r.kind = "urlerror" -> Exc("URLError", 0, id)
      [] r.kind = "timeout" -> Exc("TimeoutError", 0, id)
      [] r.kind = "incomplete" -> Exc("IncompleteRead", 0, id)
      [] OTHER -> NoException

\* fetch_issue_html, lines 285-341: every failure is caught inside the
\* function and re-raised as RuntimeError.
fetch_issue_html(r, id) ==
    CASE r.kind = "ok" -> Returned(r.body, FALSE, id)
      [] r.kind = "http" /\ r.code = 401 ->
            Raised(RuntimeErrorFrom("Authentication failed (401)", UrlopenError(r, id)))
      [] r.kind = "http" /\ r.code = 403 ->
            Raised(RuntimeErrorFrom("Forbidden (403)", UrlopenError(r, id)))
      [] r.kind = "http" /\ r.code = 404 ->
            Raised(RuntimeErrorFrom("Not found (404)", UrlopenError(r, id)))
      [] r.kind = "http" /\ r.code \notin {401, 403, 404} ->
            Raised(RuntimeErrorFrom("HTTP error", UrlopenError(r, id)))
      [] r.kind = "urlerror" ->
            Raised(RuntimeErrorFrom("Network error", UrlopenError(r, id)))
      [] r.kind = "badjson" ->
            Raised(RuntimeErrorFrom("Invalid JSON response from GitHub API",
                                    Exc("JSONDecodeError", 0, id)))
      [] OTHER ->
            Raised(RuntimeErrorFrom("Unexpected error fetching issue data",
                                    UrlopenError(r, id)))

\* _fetch_comments_page, lines 344-361: no handler of its own.
fetch_comments_page(r, id) ==
    CASE r.kind = "ok" -> Returned(r.body, r.link_next, id)
      [] r.kind = "badjson" -> Raised(Exc("JSONDecodeError", 0, id))
      [] OTHER -> Raised(UrlopenError(r, id))

\* _download_file, lines 493-496: returns the bytes read, whatever they are.
download_file(r, id) ==
    CASE r.kind \in {"ok", "badjson"} -> Returned(r.body, FALSE, id)
      [] OTHER -> Raised(UrlopenError(r, id))

\* func(*args, **kwargs), line 53
CallFunc(f, r, id) ==
    CASE f = "fetch_issue_html" -> fetch_issue_html(r, id)
      [] f = "_fetch_comments_page" -> fetch_comments_page(r, id)
      [] OTHER -> download_file(r, id)

----------------------------------------------------------------------------
(* retry_on_transient_errors.wrapper, lines 47-98 *)

\* A variant that takes every 5xx status for transient.
IsTransientCodeAny5xx(code) == code >= 500

\* line 57
IsTransientCode(code) == code \in TransientCodes

\* A variant whose range is one too long.
AttemptRangeOffByOne == 1..(MAX_RETRIES + 1)

\* line 51: for attempt in range(1, MAX_RETRIES + 1)
AttemptRange == 1..MAX_RETRIES

\* lines 59 and 79: if attempt < MAX_RETRIES
CanRetry(a) == a < MAX_RETRIES

\* A variant with linear instead of exponential backoff.
NextDelayLinear(d) == d + INITIAL_RETRY_DELAY

\* lines 65 and 85: retry_delay *= RETRY_BACKOFF_MULTIPLIER
NextDelay(d) == d * RETRY_BACKOFF_MULTIPLIER

\* A variant that keeps the first failure instead of the latest.
RecordFirstException(last, e) == IF last.type = "None" THEN e ELSE last

\* lines 58 and 78: last_exception = e
RecordException(last, e) == e

\* line 51: the first value of the loop variable
EntryAttempt == 1

\* A variant whose delay lives outside the wrapper and is never set back.
EntryDelayKept == retry_delay

\* line 49: retry_delay = INITIAL_RETRY_DELAY
EntryDelay == INITIAL_RETRY_DELAY

\* Entering the wrapper for function f.
WrapperEntry(f) ==
    /\ fn' = f
    /\ wpc' = "running"
    /\ attempt' = EntryAttempt
    /\ retry_delay' = EntryDelay
    /\ last_exception' = NoException
    /\ waits' = <<>>
    /\ wresult' = NoValue
    /\ wraised' = NoException

\* The for loop moves to its next value, or ends and line 98 raises.
LoopNext ==
    IF attempt + 1 \in AttemptRange
    THEN /\ attempt' = attempt + 1
         /\ wpc' = "running"
         /\ wraised' = wraised
    ELSE /\ attempt' = attempt
         /\ wpc' = "raised"
         /\ wraised' = last_exception'

\* The call of line 53 for the network's answer r, and what it comes to.
Called(r) ==
    /\ wpc = "running"
    /\ fn' = fn
Outcome(r) == CallFunc(fn, r, attempt)

\* line 53: the call returns.
AttemptReturns(r) ==
    /\ Called(r)
    /\ ~Outcome(r).raised
    /\ wpc' = "returned"
    /\ wresult' = Outcome(r).value
    /\ UNCHANGED <<attempt, retry_delay, last_exception, waits, wraised>>

\* lines 55-71 (HTTPError with a transient code) and 76-91 (URLError).
AttemptTransient(r) ==
    /\ Called(r)
    /\ Outcome(r).raised
    /\ \/ Outcome(r).exc.type = "HTTPError" /\ IsTransientCode(Outcome(r).exc.code)
       \/ Outcome(r).exc.type = "URLError"
    /\ last_exception' = RecordException(last_exception, Outcome(r).exc)
    /\ IF CanRetry(attempt)
       THEN /\ waits' = Append(waits, retry_delay)
            /\ retry_delay' = NextDelay(retry_delay)
       ELSE UNCHANGED <<waits, retry_delay>>
    /\ LoopNext
    /\ UNCHANGED wresult

\* lines 72-74 (other HTTP status) and 93-95 (any other exception): re-raise.
AttemptPropagates(r) ==
    /\ Called(r)
    /\ Outcome(r).raised
    /\ \/ Outcome(r).exc.type = "HTTPError" /\ ~IsTransientCode(Outcome(r).exc.code)
       \/ Outcome(r).exc.type \notin {"HTTPError", "URLError"}
    /\ wpc' = "raised"
    /\ wraised' = Outcome(r).exc
    /\ UNCHANGED <<attempt, retry_delay, last_exception, waits, wresult>>

----------------------------------------------------------------------------
(* Specification of one call of a decorated function *)

FetchIdle ==
    /\ fpc = "idle"
    /\ page = 0
    /\ all_comments = <<>>
    /\ backend = <<>>
    /\ http_log = <<>>
    /\ fresult = <<>>
    /\ fraised = NoException

\* No issue has been fetched, no download has started, nothing is on disk,
\* no run is under way.
NoIssueData ==
    [fetched |-> FALSE, _attachments |-> <<>>, _comments |-> <<>>,
     _download_metadata |-> <<>>, has_download_metadata |-> FALSE]
DownloadNotStarted ==
    [pc |-> "idle", ci |-> 0, ai |-> 0, requests |-> 0, download_metadata |-> <<>>,
     total_attachments |-> 0, downloaded_count |-> 0, failed_count |-> 0,
     total_size_bytes |-> 0]
EmptyDisk == [dirs |-> {}, files |-> <<>>]
NoRun ==
    [pc |-> "none", argv_ok |-> TRUE, repo |-> <<>>, issue_number |-> 0, token |-> <<>>,
     phases |-> <<>>, issue_requests |-> 0, raised |-> NoException, exit_code |-> <<>>]
\* No markup is being parsed, no issue is being classified, format_file_size
\* has not been called.
NoParser ==
    [pc |-> "idle", html |-> [missing |-> FALSE, tokens |-> <<>>], pos |-> 0, attachments |-> <<>>, result |-> <<>>,
     failed |-> FALSE]
NoStats ==
    [pc |-> "idle", labels |-> <<>>, k |-> 0, priority |-> "unprioritized",
     by_priority |-> [critical |-> 0, high |-> 0, medium |-> 0, low |-> 0,
                      unprioritized |-> 0],
     items |-> <<>>, open_issues |-> <<>>, i |-> 0, total |-> 0,
     by_age |-> [new |-> 0, recent |-> 0, active |-> 0, stale |-> 0, ancient |-> 0],
     open |-> <<>>]
NoFormat == [pc |-> "idle", size_bytes |-> 0, result |-> <<>>]
\* fetch-issues-matching.py has not been started, run_gh_command has not been
\* called.
NoMatching ==
    [pc |-> "idle", token_set |-> FALSE, scripts |-> {}, listing |-> <<>>, issues |-> <<>>,
     k |-> 0, commands |-> <<>>, success_count |-> 0, fail_count |-> 0,
     manifest |-> <<>>, exit_code |-> <<>>]
NoGh == [pc |-> "idle", attempt |-> 0, answers |-> <<>>, waits |-> <<>>, result |-> <<>>]
GhIdle == matching = NoMatching /\ gh = NoGh
OthersIdle ==
    /\ parser = NoParser
    /\ stats = NoStats
    /\ fmt = NoFormat
    /\ GhIdle
RunIdle ==
    /\ issue_data = NoIssueData
    /\ dl = DownloadNotStarted
    /\ fs = EmptyDisk
    /\ run = NoRun
    /\ OthersIdle

InitRetry ==
    /\ fn \in DecoratedFunctions
    /\ wpc = "running"
    /\ attempt = EntryAttempt
    /\ retry_delay = INITIAL_RETRY_DELAY
    /\ last_exception = NoException
    /\ requests = <<>>
    /\ waits = <<>>
    /\ wresult = NoValue
    /\ wraised = NoException
    /\ FetchIdle
    /\ RunIdle

\* The call log of the invocation: the network's answer to each call, in order.
Logged(r) == requests' = Append(requests, r) /\ UNCHANGED <<fvars, dvars, run, xvars>>

CallReturns == \E r \in Responses : AttemptReturns(r) /\ Logged(r)
CallRetried == \E r \in Responses : AttemptTransient(r) /\ Logged(r)
CallPropagates == \E r \in Responses : AttemptPropagates(r) /\ Logged(r)

NextRetry == CallReturns \/ CallRetried \/ CallPropagates

SpecRetry == InitRetry /\ [][NextRetry]_vars

----------------------------------------------------------------------------
(* Properties of the retry wrapper, checked under SpecRetry *)

\* The outcome of call i of the current wrapper invocation.
CallOutcome(i) == CallFunc(fn, requests[i], i)

\* Call i failed with a transient failure: HTTP 502/503/504 or URLError.
FailedTransient(i) ==
    /\ CallOutcome(i).raised
    /\ \/ CallOutcome(i).exc.type = "HTTPError" /\ CallOutcome(i).exc.code \in {502, 503, 504}
       \/ CallOutcome(i).exc.type = "URLError"

\* Call i failed with any other failure.
FailedNonTransient(i) == CallOutcome(i).raised /\ ~FailedTransient(i)

Doubling(k) == [i \in 1..k |-> 2 ^ (i - 1)]

RECURSIVE SumSeq(_)
SumSeq(s) == IF s = <<>> THEN 0 ELSE Head(s) + SumSeq(Tail(s))

\* C1: for every k in 0..4, when the first k calls fail with a transient
\* failure the wrapper goes on to call k+1, and when call k+1 succeeds the
\* operation has been called exactly k+1 times, the wrapper has returned that
\* call's value, and the waits are exactly 1, 2, 4, ... (k of them); for k = 2
\* they add up to 3 seconds.
RetryReturnsAfterTransients ==
    \A k \in 0..4 :
        (Len(requests) >= k /\ \A i \in 1..k : FailedTransient(i)) =>
            /\ Len(requests) = k => wpc = "running"
            /\ (Len(requests) > k /\ ~CallOutcome(k + 1).raised) =>
                  /\ Len(requests) = k + 1
                  /\ wpc = "returned"
                  /\ wresult = CallOutcome(k + 1).value
                  /\ wresult.from = k + 1
                  /\ waits = Doubling(k)
                  /\ k = 2 => SumSeq(waits) = 3

\* Witness of C1: four transient failures of both kinds, then success on call 5.
RetryReturnsAfterTransientsWitness ==
    /\ wpc = "returned"
    /\ Len(requests) = 5
    /\ requests[1].kind = "http" /\ requests[1].code = 503
    /\ requests[2].kind = "urlerror"
    /\ waits = <<1, 2, 4, 8>>

\* C2: a non-transient failure on any attempt, also one that follows transient
\* failures, is propagated at once: it is the last call made, the wrapper has
\* raised that very failure, and the only waits are those of the earlier
\* transient failures (none after it).
NonTransientPropagatesAtOnce ==
    \A i \in 1..Len(requests) :
        FailedNonTransient(i) =>
            /\ Len(requests) = i
            /\ wpc = "raised"
            /\ wraised = CallOutcome(i).exc
            /\ Len(waits) = i - 1
            /\ (requests[i].kind = "http" /\ requests[i].code = 404 /\ i = 1) =>
                  Len(requests) = 1 /\ waits = <<>>

\* Witness of C2: a 404 that follows a transient 503.
NonTransientPropagatesAtOnceWitness ==
    /\ fn = "_download_file"
    /\ Len(requests) = 2
    /\ requests[1].code = 503
    /\ requests[2].code = 404
    /\ wpc = "raised"
    /\ waits = <<1>>

\* C3: whatever mix of HTTP 502/503/504 and URLError failures occurs, the
\* operation is invoked at most 5 times per wrapper call, the attempt counter
\* counting failures of both kinds together.
AtMostFiveCalls ==
    /\ Len(requests) <= 5
    /\ wpc = "running" => attempt = Len(requests) + 1
    /\ wpc # "running" => attempt = Len(requests)

\* Witness of C3: five calls, failures of both kinds among them.
AtMostFiveCallsWitness ==
    /\ Len(requests) = 5
    /\ \E i, j \in 1..5 : requests[i].kind = "http" /\ requests[j].kind = "urlerror"
    /\ \A i \in 1..5 : FailedTransient(i)

\* C4: when every attempt fails with a transient failure the waits are
\* 1, 2, 4, 8 and 16 seconds, five waits in that order.
ExhaustedWaitsReachSixteen ==
    (wpc = "raised" /\ Len(requests) = MAX_RETRIES /\ \A i \in 1..MAX_RETRIES : FailedTransient(i))
        => waits = <<1, 2, 4, 8, 16>>

\* C5: when all attempts are used up by transient failures the wrapper
\* returns nothing and raises the failure of the final attempt, not an
\* earlier one, and it has not waited after that final attempt.
ExhaustionRaisesLastFailure ==
    (Len(requests) = 5 /\ \A i \in 1..5 : FailedTransient(i)) =>
        /\ wpc = "raised"
        /\ wresult = NoValue
        /\ wraised = CallOutcome(5).exc
        /\ wraised.id = 5
        /\ waits = <<1, 2, 4, 8>>

\* Witness of C5: exhaustion where the first and the final failure differ in kind.
ExhaustionRaisesLastFailureWitness ==
    /\ wpc = "raised"
    /\ Len(requests) = 5
    /\ \A i \in 1..5 : FailedTransient(i)
    /\ requests[1].kind = "urlerror"
    /\ requests[5].kind = "http" /\ requests[5].code = 504

\* The network answered request i with a transient failure.
TransientResponse(i) ==
    \/ requests[i].kind = "http" /\ requests[i].code \in {502, 503, 504}
    \/ requests[i].kind = "urlerror"

\* C6: when the issue request fails with a transient failure (502/503/504 or
\* URLError) and attempts remain, fetch_issue_html issues the request again;
\* the failure reaches the caller only after the 5 attempts are used up.
IssueFetchRetriesTransient ==
    (fn = "fetch_issue_html" /\ Len(requests) >= 1 /\ Len(requests) < 5
        /\ \A i \in 1..Len(requests) : TransientResponse(i))
        => wpc = "running"

----------------------------------------------------------------------------
(* fetch_comments_html, lines 363-427 *)

\* The comments API numbers the comments of page p; ids are unique per issue.
CommentId(p, i) == (p - 1) * (MaxPageItems + 1) + i
PageBody(p, n) == [i \in 1..n |-> CommentId(p, i)]

\* Failures of a comments request the environment draws from.
CommentFailureResponses ==
    {Resp("http", 404, <<>>, FALSE), Resp("http", 503, <<>>, FALSE),
     Resp("urlerror", 0, <<>>, FALSE), Resp("timeout", 0, <<>>, FALSE),
     Resp("badjson", 200, <<>>, FALSE)}

\* What the API may answer to a request for page p: a page it has served
\* before is served again unchanged.
PageResponses(p) ==
    (IF p \in DOMAIN backend
     THEN {backend[p]}
     ELSE {Resp("ok", 200, PageBody(p, n), nx) : n \in 0..MaxPageItems, nx \in BOOLEAN})
        \cup CommentFailureResponses

\* lines 388-402: the comment_info built from one API comment c (its id);
\* author, created_at, body, body_html and _attachments are not modelled.
CommentInfo(c) == [comment_id |-> c]

\* A variant that puts a new page's comments in front.
PrependComments(all, data) == [i \in 1..Len(data) |-> CommentInfo(data[i])] \o all

\* lines 388-402: all_comments.append(comment_info) for each comment of the page
AppendComments(all, data) == all \o [i \in 1..Len(data) |-> CommentInfo(data[i])]

\* A variant that never stops at an empty page.
StopsAtEmptyNever(data) == FALSE

\* line 383: if not comments_data
StopsAtEmpty(data) == Len(data) = 0

\* A variant that goes on after a page without the marker.
StopsAtLastNever(has_next) == FALSE

\* line 407: if not has_next_page
StopsAtLast(has_next) == ~has_next

\* line 412: page += 1
NextPage(p) == p + 1

\* lines 371-380: build the URL of `page` and call self._fetch_comments_page.
FetchCommentsCall ==
    /\ fpc = "loop"
    /\ page <= MaxPages
    /\ WrapperEntry("_fetch_comments_page")
    /\ fpc' = "call"
    /\ UNCHANGED <<requests, page, all_comments, backend, http_log, fresult, fraised>>
    /\ UNCHANGED <<dvars, run, xvars>>

\* One request of the current page, inside the wrapper.
PageRequest(r) ==
    /\ fpc = "call"
    /\ r \in PageResponses(page)
    /\ backend' = IF r.kind = "ok" THEN (page :> r) @@ backend ELSE backend
    /\ http_log' = Append(http_log,
                          [page |-> page, ok |-> r.kind = "ok",
                           slept |-> IF Len(waits') > Len(waits)
                                     THEN waits'[Len(waits')] ELSE 0])
    /\ UNCHANGED <<requests, fpc, page, all_comments, fresult, fraised>>
    /\ UNCHANGED <<dvars, run, xvars>>

PageServed == \E r \in PageResponses(page) : AttemptReturns(r) /\ PageRequest(r)
PageRetried == \E r \in PageResponses(page) : AttemptTransient(r) /\ PageRequest(r)
PageFailed == \E r \in PageResponses(page) : AttemptPropagates(r) /\ PageRequest(r)

\* The wrapper is left; its locals are gone.
WrapperLeft ==
    /\ wpc' = "idle"
    /\ UNCHANGED <<attempt, retry_delay>>
    /\ last_exception' = NoException
    /\ waits' = <<>>
    /\ wresult' = NoValue
    /\ wraised' = NoException
    /\ fn' = fn

\* lines 383-385: the page is empty, the loop ends and line 427 returns.
PageEmpty ==
    /\ fpc = "call" /\ wpc = "returned"
    /\ StopsAtEmpty(wresult.data)
    /\ fpc' = "returned"
    /\ fresult' = all_comments
    /\ WrapperLeft
    /\ UNCHANGED <<requests, page, all_comments, backend, http_log, fraised>>
    /\ UNCHANGED <<dvars, run, xvars>>

\* lines 388-409: the comments are appended, no next page: line 427 returns.
PageLast ==
    /\ fpc = "call" /\ wpc = "returned"
    /\ ~StopsAtEmpty(wresult.data)
    /\ StopsAtLast(wresult.has_next)
    /\ all_comments' = AppendComments(all_comments, wresult.data)
    /\ fpc' = "returned"
    /\ fresult' = all_comments'
    /\ WrapperLeft
    /\ UNCHANGED <<requests, page, backend, http_log, fraised>>
    /\ UNCHANGED <<dvars, run, xvars>>

\* lines 388-412: the comments are appended and the loop goes to the next page.
PageContinues ==
    /\ fpc = "call" /\ wpc = "returned"
    /\ ~StopsAtEmpty(wresult.data)
    /\ ~StopsAtLast(wresult.has_next)
    /\ all_comments' = AppendComments(all_comments, wresult.data)
    /\ page' = NextPage(page)
    /\ fpc' = "loop"
    /\ WrapperLeft
    /\ UNCHANGED <<requests, backend, http_log, fresult, fraised>>
    /\ UNCHANGED <<dvars, run, xvars>>

\* lines 414-424: what leaves fetch_comments_html when the page call raised e.
\* HTTPError, URLError and JSONDecodeError are wrapped; nothing else is caught.
CommentsError(e) ==
    CASE e.type = "HTTPError" -> RuntimeErrorFrom("Failed to fetch comments: HTTP", e)
      [] e.type = "URLError" -> RuntimeErrorFrom("Failed to fetch comments", e)
      [] e.type = "JSONDecodeError" ->
            RuntimeErrorFrom("Invalid JSON response from GitHub API", e)
      [] OTHER -> e

\* lines 418, 421 and 424: what the message of the RuntimeError names, that
\* is, the values its f-string interpolates: e.code and e.reason for an
\* HTTPError, e.reason for a URLError, nothing for a JSONDecodeError. The
\* local `page` is in scope and is in none of the three messages.
CommentsErrorNames(e) ==
    CASE e.msg = "Failed to fetch comments: HTTP" -> {"status", "reason"}
      [] e.msg = "Failed to fetch comments" -> {"reason"}
      [] OTHER -> {}

\* lines 414-424: the page call raised; fetch_comments_html raises, and its
\* local all_comments is lost.
PageError ==
    /\ fpc = "call" /\ wpc = "raised"
    /\ fpc' = "raised"
    /\ fraised' = CommentsError(wraised)
    /\ WrapperLeft
    /\ UNCHANGED <<requests, page, all_comments, backend, http_log, fresult>>
    /\ UNCHANGED <<dvars, run, xvars>>

InitComments ==
    /\ fn = "_fetch_comments_page"
    /\ wpc = "idle"
    /\ attempt = EntryAttempt
    /\ retry_delay = INITIAL_RETRY_DELAY
    /\ last_exception = NoException
    /\ requests = <<>>
    /\ waits = <<>>
    /\ wresult = NoValue
    /\ wraised = NoException
    /\ fpc = "loop"
    /\ page = 1
    /\ all_comments = <<>>
    /\ backend = <<>>
    /\ http_log = <<>>
    /\ fresult = <<>>
    /\ fraised = NoException
    /\ RunIdle

NextComments ==
    \/ FetchCommentsCall
    \/ PageServed
    \/ PageRetried
    \/ PageFailed
    \/ PageEmpty
    \/ PageLast
    \/ PageContinues
    \/ PageError

SpecComments == InitComments /\ [][NextComments]_vars

----------------------------------------------------------------------------
(* Properties of fetch_comments_html, checked under SpecComments *)

LogPages == [i \in 1..Len(http_log) |-> http_log[i].page]
AllOk == \A i \in 1..Len(http_log) : http_log[i].ok

\* Page p, once served, has items and carries the rel="next" marker.
Continuing(p) == Len(backend[p].body) > 0 /\ backend[p].link_next

\* The comments of the served pages 1..n, in the order the API returned them.
RECURSIVE ServedComments(_)
ServedComments(n) ==
    IF n = 0 THEN <<>>
    ELSE ServedComments(n - 1)
            \o [i \in 1..Len(backend[n].body) |-> [comment_id |-> backend[n].body[i]]]

\* C7: with no failing request the page requests are for pages 1, 2, ... in
\* increasing order, one each; a request follows only a non-empty page with
\* the marker, and the fetch returns only at a page that is empty or has no
\* marker: so for pages 1..P-1 non-empty with the marker and page P non-empty
\* without it, exactly P requests are made and the concatenation of all P
\* pages' comments is returned in the API's order.
PaginationComplete ==
    AllOk =>
        /\ LogPages = Iota(Len(http_log))
        /\ DOMAIN backend = 1..Len(http_log)
        /\ \A p \in 1..(Len(http_log) - 1) : Continuing(p)
        /\ fpc = "returned" =>
              /\ Len(http_log) >= 1
              /\ ~Continuing(Len(http_log))
              /\ Len(backend[Len(http_log)].body) > 0 =>
                    fresult = ServedComments(Len(http_log))

\* Witness of C7: two full pages with the marker, a shorter third without.
PaginationCompleteWitness ==
    /\ fpc = "returned"
    /\ AllOk
    /\ LogPages = <<1, 2, 3>>
    /\ Len(backend[1].body) = MaxPageItems /\ backend[1].link_next
    /\ Len(backend[2].body) = MaxPageItems /\ backend[2].link_next
    /\ Len(backend[3].body) = 1 /\ ~backend[3].link_next
    /\ Len(fresult) = 2 * MaxPageItems + 1

\* C8: page N+1 is requested only after page N was returned with at least one
\* item and with the marker; an empty page ends the fetch, marker or not, and
\* adds no comment; a non-empty page without the marker ends the fetch after
\* its comments are appended.
PaginationStopRule ==
    /\ \A i \in 1..Len(http_log) :
          IF i = 1 THEN http_log[i].page = 1
          ELSE \/ http_log[i].page = http_log[i - 1].page /\ ~http_log[i - 1].ok
               \/ /\ http_log[i].page = http_log[i - 1].page + 1
                  /\ http_log[i - 1].ok
                  /\ Continuing(http_log[i - 1].page)
    /\ (fpc # "call" /\ page \in DOMAIN backend) =>
          /\ fpc = "returned"
          /\ ~Continuing(page)
          /\ http_log[Len(http_log)].page = page
          /\ fresult = ServedComments(IF Len(backend[page].body) = 0 THEN page - 1 ELSE page)

\* Witness of C8: the second page is empty and still carries the marker.
PaginationStopRuleWitness ==
    /\ fpc = "returned"
    /\ page = 2
    /\ 2 \in DOMAIN backend
    /\ Len(backend[2].body) = 0 /\ backend[2].link_next
    /\ Len(fresult) = Len(backend[1].body)

\* The number of requests for page p among the first i requests.
RequestsOf(p, i) == Cardinality({k \in 1..i : http_log[k].page = p})

\* C9: every page has its own retry budget: at most 5 requests, whatever the
\* earlier pages used; the wait after the j-th failed request of a page that is
\* requested again is 2^(j-1) seconds (the first wait is 1 second); there is no
\* wait after a served request; a served page is never requested again; and
\* every comment is in the result exactly once.
PerPageRetryBudget ==
    /\ \A i \in 1..Len(http_log) :
          /\ RequestsOf(http_log[i].page, i) <= 5
          /\ http_log[i].ok => http_log[i].slept = 0
          /\ \A k \in (i + 1)..Len(http_log) :
                /\ http_log[i].ok => http_log[k].page # http_log[i].page
                /\ http_log[k].page >= http_log[i].page
          /\ (i < Len(http_log) /\ http_log[i + 1].page = http_log[i].page) =>
                http_log[i].slept = 2 ^ (RequestsOf(http_log[i].page, i) - 1)
    /\ fpc = "returned" =>
          \A a, b \in 1..Len(fresult) :
              fresult[a].comment_id = fresult[b].comment_id => a = b

\* Witness of C9: page 1 is served after two retries, page 2 at once, page 3
\* fails once, waits 1 second again and is the only page then requested again.
PerPageRetryBudgetWitness ==
    /\ fpc = "returned"
    /\ LogPages = <<1, 1, 1, 2, 3, 3>>
    /\ http_log[1].slept = 1 /\ http_log[2].slept = 2
    /\ ~http_log[5].ok /\ http_log[5].slept = 1
    /\ http_log[6].ok
    /\ Len(fresult) = 3 * MaxPageItems

\* C10: when a page request ends in a failure that the wrapper lets out,
\* fetch_comments_html makes no further request, raises a wrapped error
\* (RuntimeError) and the caller receives none of the comments fetched so far.
CommentFetchAbortsWrapped ==
    (fpc # "call" /\ http_log # <<>> /\ ~http_log[Len(http_log)].ok) =>
        /\ fpc = "raised"
        /\ fraised.type = "RuntimeError"
        /\ fresult = <<>>

\* C11: the wrapped error that fetch_comments_html raises when a page fails
\* names the page number that failed, and the underlying cause: the HTTP
\* status of an HTTPError, the reason of a URLError.
CommentErrorNamesPageAndCause ==
    (fpc = "raised" /\ fraised.type = "RuntimeError") =>
        /\ "page" \in CommentsErrorNames(fraised)
        /\ fraised.cause = "HTTPError" => "status" \in CommentsErrorNames(fraised)
        /\ fraised.cause = "URLError" => "reason" \in CommentsErrorNames(fraised)

----------------------------------------------------------------------------
(* Transient classification, checked under SpecRetry *)

\* Call i failed in one of the ways that count as transient: HTTP 502, 503 or
\* 504, a timeout, a DNS failure or a refused connection (the last two reach
\* the wrapper as URLError, a timeout as URLError or as TimeoutError).
FailedConnectionLevel(i) ==
    \/ requests[i].kind = "http" /\ requests[i].code \in {502, 503, 504}
    \/ requests[i].kind \in {"urlerror", "timeout"}

\* C14: every connection-level failure is retried while attempts remain: when
\* fewer than 5 calls were made and each of them failed with HTTP 502, 503 or
\* 504, a URLError or a TimeoutError, the wrapper has not raised; it goes on
\* to the next call. (Stated for the two functions that let a failure reach
\* the wrapper as it was raised.)
ConnectionFailuresRetried ==
    (/\ fn \in {"_download_file", "_fetch_comments_page"}
     /\ Len(requests) \in 1..(MAX_RETRIES - 1)
     /\ \A i \in 1..Len(requests) : FailedConnectionLevel(i)) =>
        wpc = "running"

----------------------------------------------------------------------------
(* Strings and paths. A string (a URL, a file name) is the sequence of its  *)
(* symbols; a path is the sequence of its components below the output       *)
(* directory, each component a string.                                      *)

Has(s, c) == \E i \in 1..Len(s) : s[i] = c
FirstIndex(s, c) == CHOOSE i \in 1..Len(s) : s[i] = c /\ \A j \in 1..(i - 1) : s[j] # c
LastIndex(s, c) == CHOOSE i \in 1..Len(s) : s[i] = c /\ \A j \in (i + 1)..Len(s) : s[j] # c

\* str.split(c)
RECURSIVE Split(_, _)
Split(s, c) ==
    IF ~Has(s, c) THEN <<s>>
    ELSE <<SubSeq(s, 1, FirstIndex(s, c) - 1)>>
            \o Split(SubSeq(s, FirstIndex(s, c) + 1, Len(s)), c)

\* The value None where a string may be, and the Python test `if v` of a
\* string or None; the value None of dimensions.
None == <<"None">>
Truthy(v) == v # None /\ v # <<>>
NoDimensions == [none |-> TRUE]

\* dict.get(key, default)
Get(d, key, default) == IF key \in DOMAIN d THEN d[key] ELSE default

\* A variant that cuts at the last '?' instead of the first.
StripQueryAtLast(url) ==
    IF Has(url, "?") THEN SubSeq(url, 1, LastIndex(url, "?") - 1) ELSE url

\* line 522, and the same expression in each handler of lines 537-605:
\* url.split('?')[0] if '?' in url else url
StripQuery(url) == IF Has(url, "?") THEN Split(url, "?")[1] ELSE url

\* lines 234-236: the directories of the attachments.
AttachmentsDir == <<<<"attachments">>>>
IssueAttachmentsDir == Append(AttachmentsDir, <<"issue">>)
CommentsAttachmentsDir == Append(AttachmentsDir, <<"comments">>)

\* Path / name: pathlib drops a "." component.
PathJoin(dir, name) == IF name = <<".">> THEN dir ELSE Append(dir, name)
\* Path.suffix of a file name: what starts at its last ".", unless that is
\* its first or its last character.
Suffix(name) ==
    IF Has(name, ".") /\ LastIndex(name, ".") \in 2..(Len(name) - 1)
    THEN SubSeq(name, LastIndex(name, "."), Len(name))
    ELSE <<>>
\* Path.name and Path.parent
PathName(path) == IF path = <<>> THEN <<>> ELSE path[Len(path)]
PathParent(path) == IF path = <<>> THEN <<>> ELSE SubSeq(path, 1, Len(path) - 1)
\* The path itself and every directory above it.
Ancestors(path) == {SubSeq(path, 1, k) : k \in 0..Len(path)}

\* lines 263-278: the directories create_output_directories makes.
OutputDirs == Ancestors(IssueAttachmentsDir) \cup Ancestors(CommentsAttachmentsDir)

\* Path.mkdir(parents=True, exist_ok=True) can succeed: nothing on the way is
\* a file. open(path, 'wb') can succeed: the path is not a directory and its
\* parent is one. Either may still fail (permissions, full disk).
CanMkdir(dir) == Ancestors(dir) \cap DOMAIN fs.files = {}
CanOpen(path) == path \notin fs.dirs /\ PathParent(path) \in fs.dirs

----------------------------------------------------------------------------
(* download_attachment, lines 498-605 *)

\* The bytes an attachment host serves.
FileBytes == Iota(2)

\* What the attachment host may answer to one download request.
DownloadResponses ==
    {Resp("ok", 200, FileBytes, FALSE),
     Resp("http", 403, <<>>, FALSE), Resp("http", 503, <<>>, FALSE),
     Resp("urlerror", 0, <<>>, FALSE), Resp("timeout", 0, <<>>, FALSE),
     Resp("incomplete", 0, <<>>, FALSE)}

\* The error field of a record of a download that succeeded (None).
NoError == [text |-> "None", code |-> 0]

\* lines 537-605: error_msg of each handler, in the order of the handlers
\* (HTTPError, URLError, TimeoutError, OSError, Exception). code is the status
\* that the HTTP message interpolates.
DownloadError(e) ==
    CASE e.type = "HTTPError" -> [text |-> "HTTP", code |-> e.code]
      [] e.type = "URLError" -> [text |-> "Network error", code |-> 0]
      [] e.type = "TimeoutError" -> [text |-> "Download timed out (30 seconds)", code |-> 0]
      [] e.type = "OSError" -> [text |-> "Filesystem error", code |-> 0]
      [] OTHER -> [text |-> "Unexpected error", code |-> 0]

\* A variant whose handlers end with OSError.
DownloadCatchesNoCatchAll(e) ==
    e.type \in {"HTTPError", "URLError", "TimeoutError", "OSError"}

\* lines 537-605: the last handler is `except Exception` (line 593).
DownloadCatches(e) == TRUE

\* The quotient q of a division by den that left the remainder rem, rounded
\* to the nearest integer, a tie to the even one (den is even).
RoundHalfEven(q, rem, den) ==
    IF rem > den \div 2 THEN q + 1
    ELSE IF rem = den \div 2 THEN q + (q % 2)
    ELSE q

\* f"{size_bytes / (1024 * e):.1f}" in tenths, for e = 1, 1024, 1024 * 1024:
\* 10 * size_bytes / (1024 * e), rounded. (The division by 1024 is taken
\* first so that no product leaves 32 bits.)
Tenths(size_bytes, e) ==
    LET t == 10 * (size_bytes \div 1024) + (10 * (size_bytes % 1024)) \div 1024
        s == (10 * (size_bytes % 1024)) % 1024
    IN RoundHalfEven(t \div e, (t % e) * 1024 + s, 1024 * e)

\* A variant whose units begin one byte late (<= for <).
FormatFileSizeInclusive(size_bytes) ==
    IF size_bytes <= 1024
    THEN [value |-> size_bytes, decimals |-> 0, unit |-> "B"]
    ELSE IF size_bytes <= 1024 * 1024
    THEN [value |-> Tenths(size_bytes, 1), decimals |-> 1, unit |-> "KB"]
    ELSE IF size_bytes <= 1024 * 1024 * 1024
    THEN [value |-> Tenths(size_bytes, 1024), decimals |-> 1, unit |-> "MB"]
    ELSE [value |-> Tenths(size_bytes, 1024 * 1024), decimals |-> 1, unit |-> "GB"]

\* lines 481-490: the text is the number (value, or value / 10 with one
\* decimal place), a space and the unit.
FormatFileSize(size_bytes) ==
    IF size_bytes < 1024
    THEN [value |-> size_bytes, decimals |-> 0, unit |-> "B"]
    ELSE IF size_bytes < 1024 * 1024
    THEN [value |-> Tenths(size_bytes, 1), decimals |-> 1, unit |-> "KB"]
    ELSE IF size_bytes < 1024 * 1024 * 1024
    THEN [value |-> Tenths(size_bytes, 1024), decimals |-> 1, unit |-> "MB"]
    ELSE [value |-> Tenths(size_bytes, 1024 * 1024), decimals |-> 1, unit |-> "GB"]

\* line 519: output_path.suffix.lstrip('.').lower() if output_path.suffix
\* else 'unknown' (the symbols of a file name are lower case).
FileTypeOf(output_path) ==
    IF Suffix(PathName(output_path)) # <<>>
    THEN Tail(Suffix(PathName(output_path)))
    ELSE <<"unknown">>

\* lines 515-535: the record of a download that succeeded.
SuccessRecord(url, output_path, data) ==
    [source_url |-> StripQuery(url), file_type |-> FileTypeOf(output_path),
     file_size |-> FormatFileSize(Len(data)), file_size_bytes |-> Len(data),
     file_location |-> output_path, filename |-> PathName(output_path),
     success |-> TRUE, error |-> NoError]

\* A variant whose record of a failure names the type of the file.
FailureRecordTyped(url, output_path, e) ==
    [source_url |-> StripQuery(url), file_type |-> FileTypeOf(output_path),
     file_size |-> [value |-> 0, decimals |-> 0, unit |-> "B"], file_size_bytes |-> 0,
     file_location |-> output_path, filename |-> PathName(output_path),
     success |-> FALSE, error |-> DownloadError(e)]

\* lines 537-605: the record every handler returns.
FailureRecord(url, output_path, e) ==
    [source_url |-> StripQuery(url), file_type |-> <<"unknown">>,
     file_size |-> [value |-> 0, decimals |-> 0, unit |-> "B"], file_size_bytes |-> 0,
     file_location |-> output_path, filename |-> PathName(output_path),
     success |-> FALSE, error |-> DownloadError(e)]

----------------------------------------------------------------------------
(* download_attachments, lines 607-707 *)

\* The loop position: dl.ci = 0 is the loop over the issue body's attachments
\* (lines 620-645), dl.ci = k the loop over those of the k-th comment
\* (lines 648-682); dl.ai is the index of the attachment in that list.
InCommentsRange == dl.ci <= Len(issue_data._comments)
CurrentAttachments ==
    IF dl.ci = 0 THEN issue_data._attachments
    ELSE issue_data._comments[dl.ci]._attachments
CurrentAttachment == CurrentAttachments[dl.ai]

\* lines 661: comment_dir = self.comments_attachments_dir / str(comment_id)
CommentDir(comment_id) == PathJoin(CommentsAttachmentsDir, <<ToString(comment_id)>>)

\* lines 626 and 666: output_path
OutputPath ==
    IF dl.ci = 0 THEN PathJoin(IssueAttachmentsDir, CurrentAttachment.filename)
    ELSE PathJoin(CommentDir(issue_data._comments[dl.ci].comment_id),
                  CurrentAttachment.filename)

\* lines 632-636 and 672-676: {'source': ..., 'source_id': ..., **metadata}
WithSource(m) ==
    [source |-> IF dl.ci = 0 THEN "issue" ELSE "comment",
     source_id |-> IF dl.ci = 0 THEN run.issue_number
                   ELSE issue_data._comments[dl.ci].comment_id] @@ m

\* lines 631-645 and 671-682: the record is appended, the counters move and
\* the loop goes to the next attachment.
Recorded(m) ==
    [dl EXCEPT !.pc = "loop",
               !.ai = @ + 1,
               !.download_metadata = Append(@, WithSource(m)),
               !.downloaded_count = IF m.success THEN @ + 1 ELSE @,
               !.total_size_bytes = IF m.success THEN @ + m.file_size_bytes ELSE @,
               !.failed_count = IF m.success THEN @ ELSE @ + 1,
               !.total_attachments = @ + 1]

\* lines 613-620: the locals are initialised, the issue loop begins.
DownloadAttachmentsCall ==
    /\ run.pc = "download"
    /\ dl.pc = "idle"
    /\ dl' = [DownloadNotStarted EXCEPT !.pc = "loop", !.ci = 0, !.ai = 1]
    /\ UNCHANGED <<wvars, fvars, issue_data, fs, run, xvars>>

AtAttachment == dl.pc = "loop" /\ InCommentsRange /\ dl.ai <= Len(CurrentAttachments)

\* A variant in which a download goes on with the retry budget that the
\* download before it left.
DownloadBeginKeepsBudget ==
    /\ AtAttachment
    /\ CanMkdir(PathParent(OutputPath))
    /\ fs' = [fs EXCEPT !.dirs = @ \cup Ancestors(PathParent(OutputPath))]
    /\ fn' = "_download_file"
    /\ wpc' = "running"
    /\ last_exception' = NoException
    /\ wresult' = NoValue
    /\ wraised' = NoException
    /\ dl' = [dl EXCEPT !.pc = "call", !.requests = 0]
    /\ UNCHANGED <<attempt, retry_delay, waits, requests, fvars, issue_data, run, xvars>>

\* line 504 succeeds and line 508 calls self._download_file: the wrapper is
\* entered.
DownloadBegin ==
    /\ AtAttachment
    /\ CanMkdir(PathParent(OutputPath))
    /\ fs' = [fs EXCEPT !.dirs = @ \cup Ancestors(PathParent(OutputPath))]
    /\ WrapperEntry("_download_file")
    /\ dl' = [dl EXCEPT !.pc = "call", !.requests = 0]
    /\ UNCHANGED <<requests, fvars, issue_data, run, xvars>>

\* line 504 raises OSError; the handler of line 579 returns a record.
DownloadMkdirFails ==
    /\ AtAttachment
    /\ dl' = [Recorded(FailureRecord(CurrentAttachment.url, OutputPath,
                                     Exc("OSError", 0, 0)))
                EXCEPT !.requests = 0]
    /\ UNCHANGED <<wvars, fvars, issue_data, fs, run, xvars>>

\* One urlopen call of _download_file (line 495), inside the wrapper.
DownloadRequest(r) ==
    /\ dl.pc = "call"
    /\ dl' = [dl EXCEPT !.requests = @ + 1]
    /\ UNCHANGED <<requests, fvars, issue_data, fs, run, xvars>>

DownloadReturns == \E r \in DownloadResponses : AttemptReturns(r) /\ DownloadRequest(r)
DownloadRetried == \E r \in DownloadResponses : AttemptTransient(r) /\ DownloadRequest(r)
DownloadRaises == \E r \in DownloadResponses : AttemptPropagates(r) /\ DownloadRequest(r)

\* lines 511-535: the bytes are written to output_path and the record of a
\* success is returned. writer is the number of the attachment, in the order
\* of the downloads, whose bytes the file holds.
DownloadWritten ==
    /\ dl.pc = "call" /\ wpc = "returned"
    /\ CanOpen(OutputPath)
    /\ fs' = [fs EXCEPT !.files =
                (OutputPath :> [data |-> wresult.data,
                                writer |-> Len(dl.download_metadata) + 1]) @@ @]
    /\ dl' = Recorded(SuccessRecord(CurrentAttachment.url, OutputPath, wresult.data))
    /\ WrapperLeft
    /\ UNCHANGED <<requests, fvars, issue_data, run, xvars>>

\* line 511 raises OSError; the handler of line 579 returns a record.
DownloadWriteFails ==
    /\ dl.pc = "call" /\ wpc = "returned"
    /\ dl' = Recorded(FailureRecord(CurrentAttachment.url, OutputPath,
                                    Exc("OSError", 0, 0)))
    /\ WrapperLeft
    /\ UNCHANGED <<requests, fvars, issue_data, fs, run, xvars>>

\* lines 537-605: _download_file raised; the handler of the exception returns
\* a record (an exception no handler takes would leave download_attachment).
DownloadCaught ==
    /\ dl.pc = "call" /\ wpc = "raised"
    /\ dl' = IF DownloadCatches(wraised)
             THEN Recorded(FailureRecord(CurrentAttachment.url, OutputPath, wraised))
             ELSE [dl EXCEPT !.pc = "raised"]
    /\ WrapperLeft
    /\ UNCHANGED <<requests, fvars, issue_data, fs, run, xvars>>

\* lines 624 and 650-653: the list of the issue body, or of a comment, is at
\* its end (or empty: `continue`); the next comment is taken.
SourceExhausted ==
    /\ dl.pc = "loop" /\ InCommentsRange
    /\ dl.ai > Len(CurrentAttachments)
    /\ dl' = [dl EXCEPT !.ci = @ + 1, !.ai = 1]
    /\ UNCHANGED <<wvars, fvars, issue_data, fs, run, xvars>>

\* lines 685-706: issue_data['_download_metadata'] is set, the statistics are
\* returned.
DownloadAttachmentsReturn ==
    /\ dl.pc = "loop" /\ ~InCommentsRange
    /\ issue_data' = [issue_data EXCEPT !._download_metadata = dl.download_metadata,
                                        !.has_download_metadata = TRUE]
    /\ dl' = [dl EXCEPT !.pc = "returned"]
    /\ UNCHANGED <<wvars, fvars, fs, run, xvars>>

----------------------------------------------------------------------------
(* Specification of one call of download_attachments *)

\* The attachments a batch is made of, by their place in the batch: the odd
\* ones have a URL with a query string, the even ones a URL without.
AttachmentAt(j) ==
    IF j % 2 = 1
    THEN [url |-> <<"h", "/", "a", ".", "p", "?", "t">>, filename |-> <<"a", ".", "p">>,
          file_type |-> <<"p">>, dimensions |-> [width |-> 10], tag_type |-> "img"]
    ELSE [url |-> <<"h", "/", "b", ".", "p">>, filename |-> <<"b", ".", "p">>,
          file_type |-> <<"p">>, dimensions |-> NoDimensions, tag_type |-> "a"]

\* issue_data with n0 attachments in the issue body and counts[c] in the c-th
\* comment; atts lists the attachments in that order.
IssueDataOf(n0, counts, atts) ==
    [fetched |-> TRUE,
     _attachments |-> SubSeq(atts, 1, n0),
     _comments |->
        [c \in 1..Len(counts) |->
            [comment_id |-> 100 + c,
             _attachments |-> SubSeq(atts, n0 + SumSeq(SubSeq(counts, 1, c - 1)) + 1,
                                     n0 + SumSeq(SubSeq(counts, 1, c)))]],
     _download_metadata |-> <<>>,
     has_download_metadata |-> FALSE]

\* The wrapper has not been entered yet.
WrapperNotEntered(f) ==
    /\ fn = f
    /\ wpc = "idle"
    /\ attempt = EntryAttempt
    /\ retry_delay = INITIAL_RETRY_DELAY
    /\ last_exception = NoException
    /\ requests = <<>>
    /\ waits = <<>>
    /\ wresult = NoValue
    /\ wraised = NoException

\* run has validated its inputs, made the directories, fetched the issue and
\* its comments, and is about to call download_attachments.
RunDownloading ==
    [NoRun EXCEPT !.pc = "download",
                  !.repo = <<"o", "/", "r">>,
                  !.issue_number = 1,
                  !.token = [i \in 1..MinTokenLength |-> "x"],
                  !.phases = <<"validate", "mkdirs", "fetch_issue", "fetch_comments",
                               "download">>,
                  !.issue_requests = 1]

InitDownloads ==
    /\ WrapperNotEntered("_download_file")
    /\ FetchIdle
    /\ \E n0 \in 0..MaxBatch, m \in 0..MaxBatch :
          \E counts \in [1..m -> 0..MaxBatch] :
              /\ n0 + SumSeq(counts) <= MaxBatch
              /\ issue_data = IssueDataOf(n0, counts,
                                          [j \in 1..(n0 + SumSeq(counts)) |-> AttachmentAt(j)])
    /\ dl = DownloadNotStarted
    /\ fs = [dirs |-> OutputDirs, files |-> <<>>]
    /\ run = RunDownloading
    /\ OthersIdle

NextDownloads ==
    \/ DownloadAttachmentsCall
    \/ DownloadBegin
    \/ DownloadMkdirFails
    \/ DownloadReturns
    \/ DownloadRetried
    \/ DownloadRaises
    \/ DownloadWritten
    \/ DownloadWriteFails
    \/ DownloadCaught
    \/ SourceExhausted
    \/ DownloadAttachmentsReturn

SpecDownloads == InitDownloads /\ [][NextDownloads]_vars

----------------------------------------------------------------------------
(* Specification of the download of one attachment, for every URL and name *)

UrlSymbols == {"h", "?", "t"}
UrlInputs == UNION {[1..n -> UrlSymbols] : n \in 1..MaxUrlLen}
\* File names _extract_filename can make of a URL: an ordinary one, and "."
\* (of a URL that ends in "/.").
FilenameInputs == {<<"a", ".", "p">>, <<".">>}

InitRecord ==
    /\ WrapperNotEntered("_download_file")
    /\ FetchIdle
    /\ \E u \in UrlInputs, f \in FilenameInputs :
          issue_data = IssueDataOf(1, <<>>, <<[url |-> u, filename |-> f]>>)
    /\ dl = DownloadNotStarted
    /\ fs = [dirs |-> OutputDirs, files |-> <<>>]
    /\ run = RunDownloading
    /\ OthersIdle

SpecRecord == InitRecord /\ [][NextDownloads]_vars

----------------------------------------------------------------------------
(* Properties of the downloads, checked under SpecDownloads and SpecRecord *)

\* The attachments of issue_data in the order of discovery: those of the
\* issue body in document order, then those of each comment, comment by
\* comment; each with the source the record of its download has to name.
IssueDiscovery ==
    [i \in 1..Len(issue_data._attachments) |->
        [source |-> "issue", source_id |-> run.issue_number,
         attachment |-> issue_data._attachments[i]]]
RECURSIVE CommentsDiscovery(_)
CommentsDiscovery(k) ==
    IF k = 0 THEN <<>>
    ELSE CommentsDiscovery(k - 1)
            \o [i \in 1..Len(issue_data._comments[k]._attachments) |->
                   [source |-> "comment",
                    source_id |-> issue_data._comments[k].comment_id,
                    attachment |-> issue_data._comments[k]._attachments[i]]]
DiscoveryOrder == IssueDiscovery \o CommentsDiscovery(Len(issue_data._comments))

\* The number of attachments the loops have finished with.
Passed ==
    IF dl.ci = 0 THEN dl.ai - 1
    ELSE IF dl.ci > Len(issue_data._comments) THEN Len(DiscoveryOrder)
    ELSE Len(IssueDiscovery) + Len(CommentsDiscovery(dl.ci - 1)) + dl.ai - 1

LastRecord == dl.download_metadata[Len(dl.download_metadata)]

\* C12: no failure of a download leaves download_attachment: whatever fails
\* (HTTP error, network error, timeout, directory creation, file write, any
\* other exception), the attachment gets a record with success = false,
\* file_size_bytes = 0 and a non-empty error, and the loops go on: every
\* attachment the loops have passed has its record, and download_attachments
\* returns only when every attachment of the issue body and of all comments
\* has one.
DownloadFailureIsolation ==
    /\ dl.pc # "raised"
    /\ \A i \in 1..Len(dl.download_metadata) :
          ~dl.download_metadata[i].success =>
              /\ dl.download_metadata[i].file_size_bytes = 0
              /\ dl.download_metadata[i].error # NoError
              /\ dl.download_metadata[i].error.text \notin {"", "None"}
    /\ dl.pc \in {"loop", "call"} => Len(dl.download_metadata) = Passed
    /\ dl.pc = "returned" => Len(dl.download_metadata) = Len(DiscoveryOrder)

\* Witness of C12: the download of the issue body's attachment failed with an
\* exception of no handler's own kind, the download of a comment's attachment
\* after it failed on the file system, and the batch was completed.
DownloadFailureIsolationWitness ==
    /\ dl.pc = "returned"
    /\ Len(dl.download_metadata) = 2
    /\ dl.download_metadata[1].source = "issue"
    /\ dl.download_metadata[1].error.text = "Unexpected error"
    /\ dl.download_metadata[2].source = "comment"
    /\ dl.download_metadata[2].error.text = "Filesystem error"
    /\ dl.failed_count = 2

\* C13: after download_attachments, issue_data['_download_metadata'] has one
\* record per discovered attachment, in the order of discovery, and the i-th
\* record carries the file name, the source and the source id of the i-th
\* attachment, whether its download succeeded or failed.
OneRecordPerAttachmentInOrder ==
    dl.pc = "returned" =>
        /\ issue_data.has_download_metadata
        /\ Len(issue_data._download_metadata) = Len(DiscoveryOrder)
        /\ \A i \in 1..Len(DiscoveryOrder) :
              /\ issue_data._download_metadata[i].filename
                    = DiscoveryOrder[i].attachment.filename
              /\ issue_data._download_metadata[i].source = DiscoveryOrder[i].source
              /\ issue_data._download_metadata[i].source_id = DiscoveryOrder[i].source_id

\* What a download leaves on disk: no file holds the bytes of attachment i.
NothingWrittenBy(i) == \A path \in DOMAIN fs.files : fs.files[path].writer # i

\* C15: every download has its own retry budget (its first call is attempt 1
\* with a delay of 1 second, whatever the downloads before it used); a fetch
\* that ends with HTTP 503 was requested exactly 5 times, a 403 is the last
\* request of its download (one request when it is the first answer); a
\* failed download writes nothing, and its one record names the failure: the
\* record that follows an HTTP 503 has success = false and the error HTTP 503.
DownloadUnderRetry ==
    /\ [](/\ (dl.pc = "call" /\ wpc = "running") =>
                /\ attempt = dl.requests + 1
                /\ retry_delay = 2 ^ dl.requests
                /\ waits = Doubling(dl.requests)
          /\ (dl.pc = "call" /\ wpc = "raised" /\ wraised.type = "HTTPError") =>
                /\ wraised.code = 503 => dl.requests = 5
                /\ wraised.code = 403 => dl.requests = wraised.id
          /\ \A i \in 1..Len(dl.download_metadata) :
                ~dl.download_metadata[i].success => NothingWrittenBy(i)
          /\ dl.pc \in {"loop", "call"} => Len(dl.download_metadata) = Passed)
    /\ [][(dl.pc = "call" /\ wpc = "raised" /\ wraised.type = "HTTPError") =>
            /\ Len(dl'.download_metadata) = Len(dl.download_metadata) + 1
            /\ ~dl'.download_metadata[Len(dl'.download_metadata)].success
            /\ dl'.download_metadata[Len(dl'.download_metadata)].error
                  = [text |-> "HTTP", code |-> wraised.code]
            /\ fs' = fs]_vars

\* Witness of C15: the first download failed with HTTP 503 after 5 requests;
\* the second was answered 403 at once and made one request.
DownloadUnderRetryWitness ==
    /\ dl.pc = "returned"
    /\ Len(dl.download_metadata) = 2
    /\ dl.download_metadata[1].error = [text |-> "HTTP", code |-> 503]
    /\ dl.download_metadata[2].error = [text |-> "HTTP", code |-> 403]
    /\ dl.requests = 1
    /\ attempt = 1
    /\ fs.files = <<>>

\* The place where the query string of URL u starts (past its end if none).
QueryStart(u) == IF Has(u, "?") THEN FirstIndex(u, "?") ELSE Len(u) + 1
\* URLs u and v differ in their query strings only.
SameButQuery(u, v) == SubSeq(u, 1, QueryStart(u) - 1) = SubSeq(v, 1, QueryStart(v) - 1)

\* C16: the source_url of every record, of a success or of a failure, is the
\* attachment's URL cut before its first '?' (the whole URL when it has none):
\* it contains no '?', and every URL that differs from the attachment's in
\* its query string only gives the same source_url.
SourceUrlWithoutQuery ==
    \A i \in 1..Len(dl.download_metadata) :
        /\ ~Has(dl.download_metadata[i].source_url, "?")
        /\ dl.download_metadata[i].source_url
              = SubSeq(DiscoveryOrder[i].attachment.url, 1,
                       QueryStart(DiscoveryOrder[i].attachment.url) - 1)
        /\ \A v \in UrlInputs :
              SameButQuery(v, DiscoveryOrder[i].attachment.url) =>
                  StripQuery(v) = dl.download_metadata[i].source_url

\* Witness of C16: a failed download of a URL with two '?'.
SourceUrlWithoutQueryWitness ==
    /\ Len(dl.download_metadata) = 1
    /\ ~dl.download_metadata[1].success
    /\ issue_data._attachments[1].url = <<"h", "?", "?">>
    /\ dl.download_metadata[1].source_url = <<"h">>

----------------------------------------------------------------------------
(* generate_manifest, lines 723-904. The report is the sequence of its      *)
(* lines that depend on attachments, comments and downloads; the header     *)
(* (title, metadata, labels, body) and the footer are one line each.        *)

\* `if dimensions` / `if att_dims`: neither None nor an empty map
HasDimensions(d) == d # NoDimensions /\ DOMAIN d # {}

\* lines 723-730: "N/A", or "{width}x{height}" of the map shown, with '?'
\* for a key the map has not
NotAvailable == [na |-> TRUE, shown |-> NoDimensions]
FormatDimensions(d) == IF HasDimensions(d) THEN [na |-> FALSE, shown |-> d] ELSE NotAvailable

\* A variant that takes the first attachment of that file name, with
\* dimensions or without.
LookupDimensionsFirstNamed(atts, filename) ==
    LET named == {i \in 1..Len(atts) : atts[i].filename = filename}
    IN IF named = {} THEN NotAvailable
       ELSE FormatDimensions(atts[CHOOSE i \in named : \A j \in named : i <= j].dimensions)

\* lines 790-799 and 848-857: the loop over the attachments of the body; it
\* is left at the first attachment of that file name that has dimensions.
RECURSIVE ScanDimensions(_, _, _, _)
ScanDimensions(atts, i, filename, dimensions) ==
    IF i > Len(atts) THEN dimensions
    ELSE IF atts[i].filename # filename THEN ScanDimensions(atts, i + 1, filename, dimensions)
    ELSE IF HasDimensions(atts[i].dimensions) THEN FormatDimensions(atts[i].dimensions)
    ELSE IF dimensions = NotAvailable
    THEN ScanDimensions(atts, i + 1, filename, FormatDimensions(atts[i].dimensions))
    ELSE ScanDimensions(atts, i + 1, filename, dimensions)
LookupDimensions(atts, filename) == ScanDimensions(atts, 1, filename, NotAvailable)

\* lines 773 and 806: issue_data.get('_download_metadata', []) and
\* issue_data.get('_comments', [])
DownloadMetadataOf(data) ==
    IF data.has_download_metadata THEN data._download_metadata ELSE <<>>
CommentsOf(data) == IF "_comments" \in DOMAIN data THEN data._comments ELSE <<>>

\* lines 782-801 and 840-859: the row of a record in the table of its body
\* (section 0 is the issue body, section idx the comment of number idx)
Row(meta, atts, section) ==
    [line |-> "row", section |-> section, filename |-> meta.filename,
     file_type |-> meta.file_type, file_size |-> meta.file_size,
     dimensions |-> LookupDimensions(atts, meta.filename),
     file_location |-> meta.file_location, success |-> meta.success]
Rows(metas, atts, section) == [i \in 1..Len(metas) |-> Row(metas[i], atts, section)]

\* lines 773-803: the table of the issue body's attachments, if it has any
IssueAttachmentLines(data) ==
    LET metas == SelectSeq(DownloadMetadataOf(data), LAMBDA m : m.source = "issue")
    IN IF metas = <<>> THEN <<>>
       ELSE <<[line |-> "issue_attachments"]>> \o Rows(metas, data._attachments, 0)

\* A variant that lists under a comment the records of all comments.
CommentLinesOfAnyComment(data, idx) ==
    LET comment == CommentsOf(data)[idx]
        metas == SelectSeq(DownloadMetadataOf(data), LAMBDA m : m.source = "comment")
    IN <<[line |-> "comment", idx |-> idx, comment_id |-> comment.comment_id]>>
          \o (IF metas = <<>> THEN <<>>
              ELSE <<[line |-> "comment_attachments", idx |-> idx]>>
                      \o Rows(metas, comment._attachments, idx))

\* lines 811-864: the section of the comment of number idx
CommentLines(data, idx) ==
    LET comment == CommentsOf(data)[idx]
        metas == SelectSeq(DownloadMetadataOf(data),
                           LAMBDA m : m.source = "comment" /\ m.source_id = comment.comment_id)
    IN <<[line |-> "comment", idx |-> idx, comment_id |-> comment.comment_id]>>
          \o (IF metas = <<>> THEN <<>>
              ELSE <<[line |-> "comment_attachments", idx |-> idx]>>
                      \o Rows(metas, comment._attachments, idx))

\* lines 806-864: the comments section, if there is any comment
RECURSIVE CommentSections(_, _)
CommentSections(data, k) ==
    IF k = 0 THEN <<>> ELSE CommentSections(data, k - 1) \o CommentLines(data, k)
\* A variant that opens the comments section for any issue.
CommentsLinesUnguarded(data) ==
    <<[line |-> "comments", count |-> Len(CommentsOf(data))]>>
        \o CommentSections(data, Len(CommentsOf(data)))
CommentsLines(data) ==
    IF CommentsOf(data) = <<>> THEN <<>>
    ELSE <<[line |-> "comments", count |-> Len(CommentsOf(data))]>>
            \o CommentSections(data, Len(CommentsOf(data)))

\* lines 866-897: the summary
SummaryLines(data) ==
    LET metas == DownloadMetadataOf(data)
        ok == SelectSeq(metas, LAMBDA m : m.success)
        failed_downloads == Len(metas) - Len(ok)
        file_types == {ok[i].file_type : i \in 1..Len(ok)}
    IN <<[line |-> "summary"],
         [line |-> "total_comments", value |-> Len(CommentsOf(data))],
         [line |-> "total_attachments", value |-> Len(metas)],
         [line |-> "successfully_downloaded", value |-> Len(ok)]>>
       \o (IF failed_downloads > 0
           THEN <<[line |-> "failed_downloads", value |-> failed_downloads]>> ELSE <<>>)
       \o (IF file_types # {}
           THEN <<[line |-> "file_types",
                   counts |-> [t \in file_types |->
                                 Cardinality({i \in 1..Len(ok) : ok[i].file_type = t})]]>>
           ELSE <<>>)
       \o <<[line |-> "total_size",
             text |-> FormatFileSize(SumSeq([i \in 1..Len(ok) |-> ok[i].file_size_bytes]))]>>

\* lines 732-904
GenerateManifest(data) ==
    <<[line |-> "header"]>> \o IssueAttachmentLines(data) \o CommentsLines(data)
        \o SummaryLines(data) \o <<[line |-> "footer"]>>

----------------------------------------------------------------------------
(* main and IssueDataFetcher.run, lines 220-282 and 922-1100 *)

\* str.strip() of a string over " " and other symbols.
RECURSIVE LStrip(_)
LStrip(s) == IF s # <<>> /\ Head(s) = " " THEN LStrip(Tail(s)) ELSE s
RECURSIVE RStrip(_)
RStrip(s) == IF s # <<>> /\ s[Len(s)] = " " THEN RStrip(SubSeq(s, 1, Len(s) - 1)) ELSE s
Strip(s) == RStrip(LStrip(s))

\* The values of --repo, --issue and --github-token the runs are started with.
RepoInputs ==
    {<<>>, <<"o">>, <<"/">>, <<"o", "/">>, <<"/", "r">>, <<"o", "/", "r">>,
     <<"o", "/", "/", "r">>, <<"o", "/", "r", "/", "x">>}
IssueInputs == {-1, 0, 1}
TokenInputs ==
    {[i \in 1..a |-> " "] \o [i \in 1..n |-> "x"] \o [i \in 1..b |-> " "] :
        a \in 0..1, b \in 0..1, n \in {0, MinTokenLength - 1, MinTokenLength}}

\* lines 228-232: parts = repo.split('/')
RepoParts(repo) == Split(repo, "/")

\* A variant that lets the issue number 0 pass.
IssueInvalidNegative(n) == n < 0

\* line 248: if self.issue_number <= 0
IssueInvalid(n) == n <= 0

\* line 252: if not self.github_token or len(self.github_token.strip()) < 10
TokenInvalid(t) == t = <<>> \/ Len(Strip(t)) < MinTokenLength

\* lines 244-253: validate_inputs raises ValueError.
InputsInvalid ==
    \/ RepoParts(run.repo)[1] = <<>> \/ RepoParts(run.repo)[2] = <<>>
    \/ IssueInvalid(run.issue_number)
    \/ TokenInvalid(run.token)

\* Exception classes that are OSError: TimeoutError is one, and so are
\* urllib's URLError and HTTPError.
OSErrorTypes == {"OSError", "TimeoutError", "URLError", "HTTPError"}

\* lines 1091-1100: the handlers of main, in their order: ValueError (which
\* JSONDecodeError is), OSError, Exception.
ExitCode(e) ==
    CASE e.type \in {"ValueError", "JSONDecodeError"} -> 1
      [] e.type \in OSErrorTypes -> 3
      [] OTHER -> 1

\* The step of run that has begun is noted in run.phases.
Begun(phase) == Append(run.phases, phase)
LastPhase == IF run.phases = <<>> THEN "main" ELSE run.phases[Len(run.phases)]

\* A variant of run that logs the error and goes on to save what it has.
FailedButGoesOn(phases, e) ==
    [run EXCEPT !.pc = "save", !.phases = phases, !.raised = e]

\* lines 1022-1024 and 1091-1100: the exception e leaves run (logged and
\* re-raised) and main returns the exit code of its handler.
Failed(phases, e) ==
    [run EXCEPT !.pc = "exit", !.phases = phases, !.raised = e,
                !.exit_code = <<ExitCode(e)>>]

\* lines 1027-1066 and 1073: argparse rejects the command line (an option is
\* missing, --issue is not an integer) and exits with status 2; SystemExit is
\* no Exception, so no handler of main takes it.
MainParseFails ==
    /\ run.pc = "main" /\ ~run.argv_ok
    /\ run' = [run EXCEPT !.pc = "exit", !.raised = Exc("SystemExit", 2, 0),
                          !.exit_code = <<2>>]
    /\ UNCHANGED <<xvars, wvars, fvars, dvars>>

\* lines 228-230: the repository does not split into two parts.
MainInitFails ==
    /\ run.pc = "main" /\ run.argv_ok
    /\ Len(RepoParts(run.repo)) # 2
    /\ run' = Failed(run.phases, Exc("ValueError", 0, 0))
    /\ UNCHANGED <<xvars, wvars, fvars, dvars>>

\* lines 220-236 and 1087: the fetcher is constructed (the token is
\* stripped) and run is called.
MainInit ==
    /\ run.pc = "main" /\ run.argv_ok
    /\ Len(RepoParts(run.repo)) = 2
    /\ run' = [run EXCEPT !.pc = "validate", !.token = Strip(@)]
    /\ UNCHANGED <<xvars, wvars, fvars, dvars>>

\* lines 239-254
ValidateFails ==
    /\ run.pc = "validate"
    /\ InputsInvalid
    /\ run' = Failed(Begun("validate"), Exc("ValueError", 0, 0))
    /\ UNCHANGED <<xvars, wvars, fvars, dvars>>

\* lines 239-257
ValidateOk ==
    /\ run.pc = "validate"
    /\ ~InputsInvalid
    /\ run' = [run EXCEPT !.pc = "mkdirs", !.phases = Begun("validate")]
    /\ UNCHANGED <<xvars, wvars, fvars, dvars>>

\* lines 259-278
CreateDirs ==
    /\ run.pc = "mkdirs"
    /\ fs' = [fs EXCEPT !.dirs = @ \cup OutputDirs]
    /\ run' = [run EXCEPT !.pc = "fetch_issue", !.phases = Begun("mkdirs")]
    /\ UNCHANGED <<xvars, wvars, fvars, issue_data, dl>>

\* lines 280-282: a mkdir raises OSError.
CreateDirsFails ==
    /\ run.pc = "mkdirs"
    /\ run' = Failed(Begun("mkdirs"), Exc("OSError", 0, 0))
    /\ UNCHANGED <<xvars, wvars, fvars, dvars>>

\* What the issues API may answer to the request for the issue.
IssueResponses == {Resp("ok", 200, <<>>, FALSE)} \cup FailureResponses

\* lines 429-435: fetch_issue_data calls fetch_issue_html; the wrapper is
\* entered.
FetchIssueCall ==
    /\ run.pc = "fetch_issue"
    /\ WrapperEntry("fetch_issue_html")
    /\ run' = [run EXCEPT !.pc = "issue_call", !.phases = Begun("fetch_issue")]
    /\ UNCHANGED <<xvars, requests, fvars, dvars>>

\* One urlopen call of fetch_issue_html (line 296), inside the wrapper.
IssueRequest(r) ==
    /\ run.pc = "issue_call"
    /\ run' = [run EXCEPT !.issue_requests = @ + 1]
    /\ UNCHANGED <<xvars, requests, fvars, dvars>>

IssueReturns == \E r \in IssueResponses : AttemptReturns(r) /\ IssueRequest(r)
IssueRaises == \E r \in IssueResponses : AttemptPropagates(r) /\ IssueRequest(r)

\* lines 437-473: the attachments of body_html are extracted and kept in
\* issue_data['_attachments']; the issue body embeds none or one.
IssueFetched ==
    /\ run.pc = "issue_call" /\ wpc = "returned"
    /\ \E n \in 0..1 :
          issue_data' = [NoIssueData EXCEPT !.fetched = TRUE,
                                            !._attachments = [j \in 1..n |-> AttachmentAt(j)]]
    /\ run' = [run EXCEPT !.pc = "fetch_comments"]
    /\ WrapperLeft
    /\ UNCHANGED <<xvars, requests, fvars, dl, fs>>

\* lines 475-479: the RuntimeError of fetch_issue_html leaves fetch_issue_data.
IssueFailed ==
    /\ run.pc = "issue_call" /\ wpc = "raised"
    /\ run' = Failed(run.phases, wraised)
    /\ WrapperLeft
    /\ UNCHANGED <<xvars, requests, fvars, dvars>>

\* lines 363-368 and 948: run calls fetch_comments_html.
FetchCommentsBegin ==
    /\ run.pc = "fetch_comments"
    /\ fpc = "idle"
    /\ fpc' = "loop"
    /\ page' = 1
    /\ all_comments' = <<>>
    /\ run' = [run EXCEPT !.pc = "comments_call", !.phases = Begun("fetch_comments")]
    /\ UNCHANGED <<xvars, wvars, backend, http_log, fresult, fraised, dvars>>

\* lines 388-402: the comment_info of a comment with its _attachments; the
\* first comment of the issue embeds n attachments, the others none.
WithAttachments(comments, first, n) ==
    [i \in 1..Len(comments) |->
        [comment_id |-> comments[i].comment_id,
         _attachments |-> IF i = 1 THEN [j \in 1..n |-> AttachmentAt(first + j)] ELSE <<>>]]

\* lines 978-981: total_attachments
TotalAttachments(data) ==
    Len(data._attachments)
        + SumSeq([c \in 1..Len(data._comments) |-> Len(data._comments[c]._attachments)])

\* lines 948-996: the comments are put into issue_data['_comments'] and, if
\* there is any attachment, download_attachments is called.
CommentsFetched ==
    /\ run.pc = "comments_call" /\ fpc = "returned"
    /\ \E n \in 0..1 :
          issue_data' = [issue_data EXCEPT
                            !._comments = WithAttachments(fresult, Len(issue_data._attachments), n)]
    /\ run' = IF TotalAttachments(issue_data') > 0
              THEN [run EXCEPT !.pc = "download", !.phases = Begun("download")]
              ELSE [run EXCEPT !.pc = "save"]
    /\ UNCHANGED <<xvars, wvars, fvars, dl, fs>>

\* lines 948 and 1022-1024: fetch_comments_html raised.
CommentsFailed ==
    /\ run.pc = "comments_call" /\ fpc = "raised"
    /\ run' = Failed(run.phases, fraised)
    /\ UNCHANGED <<xvars, wvars, fvars, dvars>>

\* A variant that saves as soon as the downloads have been started.
ReadyToSaveEarly == run.pc \in {"save", "download"}

\* A variant that saves only if no download has failed.
ReadyToSaveIfAllDownloaded ==
    run.pc = "save" \/ (run.pc = "download" /\ dl.pc = "returned" /\ dl.failed_count = 0)

\* lines 983-1000: step 6 follows the return of download_attachments, or the
\* branch without attachments.
ReadyToSave == run.pc = "save" \/ (run.pc = "download" /\ dl.pc = "returned")

IssueJson == <<<<"issue.json">>>>
ManifestMd == <<<<"manifest.md">>>>

\* lines 922-930: issue.json is written.
SaveIssueData ==
    /\ ReadyToSave
    /\ fs' = [fs EXCEPT !.files = (IssueJson :> [data |-> issue_data, writer |-> 0]) @@ @]
    /\ run' = [run EXCEPT !.pc = "save_manifest", !.phases = Begun("save_issue_data")]
    /\ UNCHANGED <<xvars, wvars, fvars, issue_data, dl>>

\* lines 931-933: writing issue.json raises OSError.
SaveIssueDataFails ==
    /\ ReadyToSave
    /\ run' = Failed(Begun("save_issue_data"), Exc("OSError", 0, 0))
    /\ UNCHANGED <<xvars, wvars, fvars, dvars>>

\* lines 906-917 and 1000-1089: manifest.md is written, run returns and main
\* returns 0.
SaveManifest ==
    /\ run.pc = "save_manifest"
    /\ fs' = [fs EXCEPT !.files =
                (ManifestMd :> [data |-> GenerateManifest(issue_data), writer |-> 0]) @@ @]
    /\ run' = [run EXCEPT !.pc = "exit", !.phases = Begun("save_manifest"),
                          !.exit_code = <<0>>]
    /\ UNCHANGED <<xvars, wvars, fvars, issue_data, dl>>

\* lines 918-920: writing manifest.md raises OSError.
SaveManifestFails ==
    /\ run.pc = "save_manifest"
    /\ run' = Failed(Begun("save_manifest"), Exc("OSError", 0, 0))
    /\ UNCHANGED <<xvars, wvars, fvars, dvars>>

----------------------------------------------------------------------------
(* Specification of one run of main. In a run a request is answered or      *)
(* fails for good; the retries of transient failures are the subject of     *)
(* SpecRetry, SpecComments and SpecDownloads.                               *)

InitRun ==
    /\ WrapperNotEntered("fetch_issue_html")
    /\ FetchIdle
    /\ issue_data = NoIssueData
    /\ dl = DownloadNotStarted
    /\ fs = EmptyDisk
    /\ OthersIdle
    /\ \/ run = [NoRun EXCEPT !.pc = "main", !.argv_ok = FALSE]
       \/ \E repo \in RepoInputs, issue \in IssueInputs, token \in TokenInputs :
             run = [NoRun EXCEPT !.pc = "main", !.repo = repo, !.issue_number = issue,
                                 !.token = token]

NextRun ==
    \/ MainParseFails
    \/ MainInitFails
    \/ MainInit
    \/ ValidateFails
    \/ ValidateOk
    \/ CreateDirs
    \/ CreateDirsFails
    \/ FetchIssueCall
    \/ IssueReturns
    \/ IssueRaises
    \/ IssueFetched
    \/ IssueFailed
    \/ FetchCommentsBegin
    \/ FetchCommentsCall
    \/ PageServed
    \/ PageFailed
    \/ PageEmpty
    \/ PageLast
    \/ PageContinues
    \/ PageError
    \/ CommentsFetched
    \/ CommentsFailed
    \/ DownloadAttachmentsCall
    \/ DownloadBegin
    \/ DownloadMkdirFails
    \/ DownloadReturns
    \/ DownloadRaises
    \/ DownloadWritten
    \/ DownloadWriteFails
    \/ DownloadCaught
    \/ SourceExhausted
    \/ DownloadAttachmentsReturn
    \/ SaveIssueData
    \/ SaveIssueDataFails
    \/ SaveManifest
    \/ SaveManifestFails

SpecRun == InitRun /\ [][NextRun]_vars

----------------------------------------------------------------------------
(* Properties of a run, checked under SpecRun *)

\* The repository has exactly one '/' and a non-empty part on each side.
RepoWellFormed(repo) ==
    \E k \in 2..(Len(repo) - 1) :
        repo[k] = "/" /\ \A j \in (1..Len(repo)) \ {k} : repo[j] # "/"

\* The configuration of the run is one that has to be rejected.
ConfigRejected ==
    \/ ~RepoWellFormed(run.repo)
    \/ run.issue_number <= 0
    \/ Len(Strip(run.token)) < 10

\* No request has gone to the network: none for the issue, none for a page of
\* comments, and no download has been started.
NoNetworkRequest ==
    /\ run.issue_requests = 0
    /\ http_log = <<>> /\ fpc = "idle"
    /\ dl.pc = "idle"
    /\ wpc = "idle"

\* C17: a run whose repository is not OWNER/REPO (one '/', both parts
\* non-empty), whose issue number is <= 0 or whose token, trimmed, is empty
\* or shorter than 10 characters never passes validation: it makes no
\* network request, creates nothing on disk, and when it ends the exit code
\* is 1. (For a command line that argparse accepts.)
EagerValidation ==
    (run.argv_ok /\ ConfigRejected) =>
        /\ run.pc \in {"main", "validate", "exit"}
        /\ NoNetworkRequest
        /\ fs = EmptyDisk
        /\ run.pc = "exit" => run.exit_code = <<1>> /\ run.raised.type = "ValueError"

\* Witness of C17: a well-formed repository and a good token with the issue
\* number 0: validate_inputs has rejected the run.
EagerValidationWitness ==
    /\ run.pc = "exit"
    /\ run.phases = <<"validate">>
    /\ RepoWellFormed(run.repo)
    /\ run.issue_number = 0
    /\ Len(run.token) = 10
    /\ run.exit_code = <<1>>

\* C18: main returns 0 for a run that completed all its steps, 3 when the
\* output directories cannot be created or issue.json or manifest.md cannot
\* be written, 1 for a configuration error and for a failure of the issue
\* fetch or of the comment fetch; it produces no other exit code. (For a
\* command line that argparse accepts.)
ExitCodeMapping ==
    (run.pc = "exit" /\ run.argv_ok) =>
        /\ run.exit_code \in {<<0>>, <<1>>, <<3>>}
        /\ run.exit_code = <<0>> <=>
              (run.raised = NoException /\ LastPhase = "save_manifest")
        /\ (run.raised # NoException
              /\ LastPhase \in {"mkdirs", "save_issue_data", "save_manifest"}) =>
                 run.exit_code = <<3>>
        /\ (run.raised # NoException
              /\ LastPhase \in {"main", "validate", "fetch_issue", "fetch_comments"}) =>
                 run.exit_code = <<1>>

\* C19: when the issue fetch fails, or the fetch of any page of comments
\* fails, the run stops there: no download is attempted, neither issue.json
\* nor manifest.md is written, and no step follows.
NoPartialOutput ==
    /\ []((run.raised # NoException /\ LastPhase \in {"fetch_issue", "fetch_comments"}) =>
            /\ run.pc = "exit"
            /\ dl = DownloadNotStarted
            /\ DOMAIN fs.files = {}
            /\ issue_data._download_metadata = <<>>)
    /\ [][~(run.pc = "exit" /\ run.raised # NoException)]_vars

\* Witness of C19: the issue, with an attachment in its body, was fetched;
\* page 1 of the comments was served and the request for page 2 failed.
NoPartialOutputWitness ==
    /\ run.pc = "exit"
    /\ LastPhase = "fetch_comments"
    /\ run.raised.type = "RuntimeError"
    /\ Len(issue_data._attachments) = 1
    /\ page = 2
    /\ 1 \in DOMAIN backend

\* The steps of run in their order; the download step is left out when there
\* is no attachment.
StepOrder ==
    <<"validate", "mkdirs", "fetch_issue", "fetch_comments", "download",
      "save_issue_data", "save_manifest">>
StepOrderNoDownload ==
    <<"validate", "mkdirs", "fetch_issue", "fetch_comments",
      "save_issue_data", "save_manifest">>
IsPrefix(s, t) == Len(s) <= Len(t) /\ s = SubSeq(t, 1, Len(s))

\* C20: the steps of a run begin in the order validate, (directories,) fetch
\* issue, fetch comments, download, persist; a request goes to the network
\* only in the step it belongs to; no page of comments is requested before
\* the issue fetch has succeeded, no download starts before the comment
\* fetch has returned, and issue.json and manifest.md are written, issue.json
\* first, only when every discovered attachment has its record.
PhaseOrdering ==
    /\ IsPrefix(run.phases, StepOrder) \/ IsPrefix(run.phases, StepOrderNoDownload)
    /\ run.issue_requests > 0 => IsPrefix(<<"validate", "mkdirs", "fetch_issue">>, run.phases)
    /\ (fpc # "idle" \/ http_log # <<>>) =>
          /\ issue_data.fetched
          /\ IsPrefix(<<"validate", "mkdirs", "fetch_issue", "fetch_comments">>, run.phases)
    /\ dl.pc # "idle" =>
          /\ fpc = "returned"
          /\ IsPrefix(<<"validate", "mkdirs", "fetch_issue", "fetch_comments", "download">>,
                      run.phases)
    /\ wpc = "running" =>
          \/ fn = "fetch_issue_html" /\ LastPhase = "fetch_issue"
          \/ fn = "_fetch_comments_page" /\ LastPhase = "fetch_comments"
          \/ fn = "_download_file" /\ LastPhase = "download"
    /\ IssueJson \in DOMAIN fs.files =>
          /\ fpc = "returned"
          /\ dl.pc \in {"idle", "returned"}
          /\ Len(issue_data._download_metadata) = Len(DiscoveryOrder)
          /\ Len(DiscoveryOrder) = TotalAttachments(issue_data)
    /\ ManifestMd \in DOMAIN fs.files => IssueJson \in DOMAIN fs.files

\* Witness of C20: a run through all its steps, with two comment pages and
\* two attachments, one of them not downloaded.
PhaseOrderingWitness ==
    /\ run.pc = "exit"
    /\ run.phases = StepOrder
    /\ Len(http_log) = 2
    /\ Len(issue_data._download_metadata) = 2
    /\ dl.failed_count = 1
    /\ IssueJson \in DOMAIN fs.files
    /\ ManifestMd \in DOMAIN fs.files

----------------------------------------------------------------------------
(* AttachmentExtractor and extract_attachments_from_html, lines 103-214      *)
(*                                                                         *)
(* A URL is a sequence of symbols. "/", "?" and "." are themselves; "a" is  *)
(* a lower-case hexadecimal character, "p" a word character that is not     *)
(* one; "s" is the scheme "https:"; "D" is one of the attachment domains    *)
(* (user-attachments.githubusercontent.com) and "e" a domain that is none   *)
(* (evil.example): in "s", "D" and "e" a character outside [a-f0-9-] comes  *)
(* before one outside \w, so none of them can be part of what the first     *)
(* pattern of _extract_filename matches; "t" is a token of a query string.  *)

\* lines 141-153: any(domain in url for domain in attachment_domains)
IsAttachmentUrl(url) == Truthy(url) /\ Has(url, "D")

\* The character classes [a-f0-9-] and \w, and [^/?].
HexClass(c) == c \in {"a", "-"}
WordClass(c) == c \in {"a", "p", "t"}
SegmentClass(c) == c \notin {"/", "?"}

\* The end of the longest run of characters of a class that starts at i
\* (i - 1 if there is none): what a greedy `+` takes.
RunEnd(u, i, Class(_)) ==
    LET stops == {k \in i..Len(u) : ~Class(u[k])}
    IN IF stops = {} THEN (IF i <= Len(u) THEN Len(u) ELSE i - 1)
       ELSE (CHOOSE k \in stops : \A m \in stops : k <= m) - 1

\* (?:\?|$) at the place after k
QueryOrEnd(u, k) == k = Len(u) \/ u[k + 1] = "?"

\* line 158: '/([a-f0-9-]+\.[\w]+)(?:\?|$)' matched at i; the place where
\* group 1 ends, 0 if there is no match at i.
UuidMatchEnd(u, i) ==
    LET j == RunEnd(u, i + 1, HexClass)
        k == RunEnd(u, j + 2, WordClass)
    IN IF /\ u[i] = "/" /\ j >= i + 1
          /\ j + 1 <= Len(u) /\ u[j + 1] = "."
          /\ k >= j + 2 /\ QueryOrEnd(u, k)
       THEN k ELSE 0

\* line 163: '/([^/?]+)(?:\?|$)' matched at i
FallbackMatchEnd(u, i) ==
    LET k == RunEnd(u, i + 1, SegmentClass)
    IN IF u[i] = "/" /\ k >= i + 1 /\ QueryOrEnd(u, k) THEN k ELSE 0

\* re.search: group 1 of the leftmost match, <<>> wrapped in a sequence, or
\* <<>> if the pattern matches nowhere.
Search(u, MatchEnd(_, _)) ==
    LET at == {i \in 1..Len(u) : MatchEnd(u, i) > 0}
    IN IF at = {} THEN <<>>
       ELSE LET i == CHOOSE m \in at : \A n \in at : m <= n
            IN <<SubSeq(u, i + 1, MatchEnd(u, i))>>

\* lines 155-167
ExtractFilename(url) ==
    IF Search(url, UuidMatchEnd) # <<>> THEN Search(url, UuidMatchEnd)[1]
    ELSE IF Search(url, FallbackMatchEnd) # <<>> THEN Search(url, FallbackMatchEnd)[1]
    ELSE <<"unknown_file">>

\* What follows the last "." of a domain.
DomainSuffix == [D |-> <<"com">>, e |-> <<"example">>]

\* lines 169-178: '\.(\w+)$' on the file name (the symbols are lower case);
\* a file name that ends with a domain ends with the domain's suffix.
ExtractFileType(url) ==
    LET f == ExtractFilename(url)
        dots == {i \in 1..(Len(f) - 1) :
                    f[i] = "." /\ RunEnd(f, i + 1, WordClass) = Len(f)}
    IN IF f[Len(f)] \in DOMAIN DomainSuffix THEN DomainSuffix[f[Len(f)]]
       ELSE IF dots = {} THEN <<"unknown">>
       ELSE SubSeq(f, (CHOOSE i \in dots : \A j \in dots : i <= j) + 1, Len(f))

\* int(v) of a string over the digits "0" and "1", " " and "x": it parses
\* when the string, stripped of white space, is a non-empty run of digits.
IsDigit(c) == c \in {"0", "1"}
IntParses(v) == Strip(v) # <<>> /\ \A i \in 1..Len(Strip(v)) : IsDigit(Strip(v)[i])
RECURSIVE DigitsValue(_)
DigitsValue(t) ==
    IF t = <<>> THEN 0
    ELSE 10 * DigitsValue(SubSeq(t, 1, Len(t) - 1)) + (IF t[Len(t)] = "1" THEN 1 ELSE 0)
IntValue(v) == DigitsValue(Strip(v))

\* The keys of dimensions: those of width and height whose attribute is a
\* non-empty string that int() parses (lines 187-196).
ParsedKeys(attrs) ==
    {k \in {"width", "height"} : Truthy(Get(attrs, k, None)) /\ IntParses(attrs[k])}

\* A variant that returns the map it has built even when it is empty.
ExtractDimensionsEmptyMap(attrs) ==
    IF Truthy(Get(attrs, "width", None)) \/ Truthy(Get(attrs, "height", None))
    THEN [k \in ParsedKeys(attrs) |-> IntValue(attrs[k])]
    ELSE NoDimensions

\* lines 180-199
ExtractDimensions(attrs) ==
    IF Truthy(Get(attrs, "width", None)) \/ Truthy(Get(attrs, "height", None))
    THEN IF ParsedKeys(attrs) = {} THEN NoDimensions
         ELSE [k \in ParsedKeys(attrs) |-> IntValue(attrs[k])]
    ELSE NoDimensions

\* lines 119-125 and 132-138: the attachment dict of a tag
ImgAttachment(src, attrs) ==
    [url |-> src, filename |-> ExtractFilename(src), file_type |-> ExtractFileType(src),
     dimensions |-> ExtractDimensions(attrs), tag_type |-> "img"]
LinkAttachment(href) ==
    [url |-> href, filename |-> ExtractFilename(href), file_type |-> ExtractFileType(href),
     dimensions |-> NoDimensions, tag_type |-> "a"]

\* lines 111-139: handle_starttag; attrs is attrs_dict (a tag carries an
\* attribute name once). The attachments after the tag.
HandleStarttagResult(tag, attrs, attachments) ==
    CASE tag = "img" /\ IsAttachmentUrl(Get(attrs, "src", <<>>)) ->
            Append(attachments, ImgAttachment(attrs["src"], attrs))
      [] tag = "a" /\ IsAttachmentUrl(Get(attrs, "href", <<>>)) ->
            Append(attachments, LinkAttachment(attrs["href"]))
      [] OTHER -> attachments

\* html_content is None or a string, modelled by its tokens in document
\* order ("" has none); `not html_content` is true of None and of "".
Falsy(html) == html.missing \/ html.tokens = <<>>

\* The token feed is at.
Token == parser.html.tokens[parser.pos]
Feeding == parser.pc = "feeding" /\ parser.pos <= Len(parser.html.tokens)

\* lines 204-205: if not html_content: return []
ExtractNothing ==
    /\ parser.pc = "called"
    /\ Falsy(parser.html)
    /\ parser' = [parser EXCEPT !.pc = "returned", !.result = <<>>]
    /\ UNCHANGED <<wvars, fvars, dvars, run, stats, fmt, gvars>>

\* lines 207-209: the parser is made and fed.
FeedBegin ==
    /\ parser.pc = "called"
    /\ ~Falsy(parser.html)
    /\ parser' = [parser EXCEPT !.pc = "feeding", !.pos = 1, !.attachments = <<>>]
    /\ UNCHANGED <<wvars, fvars, dvars, run, stats, fmt, gvars>>

\* lines 111-139: feed meets a start tag.
HandleStarttag ==
    /\ Feeding
    /\ Token.kind = "starttag"
    /\ parser' = [parser EXCEPT
                     !.pos = @ + 1,
                     !.attachments = HandleStarttagResult(Token.tag, Token.attrs, @)]
    /\ UNCHANGED <<wvars, fvars, dvars, run, stats, fmt, gvars>>

\* feed meets text, an end tag, a comment: the handlers of HTMLParser that
\* AttachmentExtractor does not override do nothing.
HandleOther ==
    /\ Feeding
    /\ Token.kind # "starttag"
    /\ parser' = [parser EXCEPT !.pos = @ + 1]
    /\ UNCHANGED <<wvars, fvars, dvars, run, stats, fmt, gvars>>

\* A variant that returns what was found before the failure.
FeedRaisesKeepsFound ==
    /\ Feeding
    /\ parser' = [parser EXCEPT !.pc = "returned", !.failed = TRUE,
                                !.result = parser.attachments]
    /\ UNCHANGED <<wvars, fvars, dvars, run, stats, fmt, gvars>>

\* lines 210-212: feed raises at the token it is at; the exception is logged
\* and [] is returned.
FeedRaises ==
    /\ Feeding
    /\ parser' = [parser EXCEPT !.pc = "returned", !.failed = TRUE, !.result = <<>>]
    /\ UNCHANGED <<wvars, fvars, dvars, run, stats, fmt, gvars>>

\* line 214: return parser.attachments
FeedReturns ==
    /\ parser.pc = "feeding"
    /\ parser.pos > Len(parser.html.tokens)
    /\ parser' = [parser EXCEPT !.pc = "returned", !.result = parser.attachments]
    /\ UNCHANGED <<wvars, fvars, dvars, run, stats, fmt, gvars>>

NextExtract ==
    \/ ExtractNothing
    \/ FeedBegin
    \/ HandleStarttag
    \/ HandleOther
    \/ FeedRaises
    \/ FeedReturns

----------------------------------------------------------------------------
(* Specifications of extract_attachments_from_html: SpecExtract over the    *)
(* markup (its tokens, in document order), SpecUrl over the URL of one      *)
(* img tag.                                                                 *)

\* URLs of the markup: on an attachment domain, with and without a query
\* string; on another host; on another host with the domain in its query.
AssetUrl == <<"s", "/", "/", "D", "/", "a", ".", "p", "?", "t">>
AssetUrlPlain == <<"s", "/", "/", "D", "/", "p">>
ForeignUrl == <<"s", "/", "/", "e", "/", "a", ".", "p">>
ForeignUrlNamingDomain == <<"s", "/", "/", "e", "/", "a", ".", "p", "?", "D">>

\* Values of a width or height attribute: "", "10", "x"; and the ways an
\* attribute is or is not there.
SizeValues == {<<>>, <<"1", "0">>, <<"x">>}
SizeAttrs(name) == {<<>>} \cup {name :> v : v \in SizeValues}

StartTag(tag, attrs) == [kind |-> "starttag", tag |-> tag, attrs |-> attrs]

\* The tokens of the markup.
TagInputs ==
    {StartTag("img", ("src" :> AssetUrl) @@ w @@ h) :
        w \in SizeAttrs("width"), h \in SizeAttrs("height")}
    \cup {StartTag("img", ("src" :> AssetUrlPlain) @@ ("width" :> <<" ", "1">>)
                                @@ ("height" :> <<"0">>)),
          StartTag("img", "src" :> ForeignUrl),
          StartTag("img", "src" :> ForeignUrlNamingDomain),
          StartTag("img", "href" :> AssetUrl),
          StartTag("a", "href" :> AssetUrlPlain),
          StartTag("a", ("href" :> AssetUrl) @@ ("width" :> <<"1", "0">>)
                              @@ ("height" :> <<"1", "0">>)),
          StartTag("a", "src" :> AssetUrl),
          StartTag("a", "href" :> ForeignUrlNamingDomain),
          StartTag("div", ("src" :> AssetUrl) @@ ("href" :> AssetUrl)),
          [kind |-> "text"]}

\* html_content: None, or markup of up to MaxTags tokens.
HtmlInputs ==
    {[missing |-> TRUE, tokens |-> <<>>]}
    \cup {[missing |-> FALSE, tokens |-> t] :
            t \in UNION {[1..n -> TagInputs] : n \in 0..MaxTags}}

ExtractCalled(html) == [NoParser EXCEPT !.pc = "called", !.html = html]

InitExtract ==
    /\ WrapperNotEntered("_download_file")
    /\ FetchIdle
    /\ issue_data = NoIssueData /\ dl = DownloadNotStarted /\ fs = EmptyDisk /\ run = NoRun
    /\ stats = NoStats /\ fmt = NoFormat /\ GhIdle
    /\ \E html \in HtmlInputs : parser = ExtractCalled(html)

SpecExtract == InitExtract /\ [][NextExtract]_vars

\* The URLs of SpecUrl: a host, no path or a path of up to MaxPathLen symbols
\* that begins with "/", a query string or none.
HostInputs == {<<"s", "/", "/", "D">>, <<"s", "/", "/", "e">>}
PathSymbols == {"/", "a", ".", "p"}
PathInputs ==
    {<<>>} \cup {<<"/">> \o rest :
                    rest \in UNION {[1..n -> PathSymbols] : n \in 0..(MaxPathLen - 1)}}
QueryInputs ==
    {<<>>, <<"?">>, <<"?", "t">>, <<"?", "D">>, <<"?", "t", "/", "a", ".", "p">>,
     <<"?", "t", "/", "p">>, <<"?", "t", "?", "t">>}
UrlOf(host, path, query) == host \o path \o query

InitUrl ==
    /\ WrapperNotEntered("_download_file")
    /\ FetchIdle
    /\ issue_data = NoIssueData /\ dl = DownloadNotStarted /\ fs = EmptyDisk /\ run = NoRun
    /\ stats = NoStats /\ fmt = NoFormat /\ GhIdle
    /\ \E host \in HostInputs, path \in PathInputs, query \in QueryInputs :
          parser = ExtractCalled(
              [missing |-> FALSE,
               tokens |-> <<StartTag("img", "src" :> UrlOf(host, path, query))>>])

\* The markup of SpecUrl is one start tag.
NextUrl ==
    \/ FeedBegin
    \/ HandleStarttag
    \/ FeedRaises
    \/ FeedReturns

SpecUrl == InitUrl /\ [][NextUrl]_vars

----------------------------------------------------------------------------
(* Properties of the extractor, checked under SpecExtract and SpecUrl *)

\* The host of a URL: what stands between "https://" and the next "/" or
\* "?"; it is allow-listed when it is, or contains, an attachment domain.
UrlHost(url) ==
    LET rest == SubSeq(url, 4, Len(url))
        stops == {i \in 1..Len(rest) : rest[i] \in {"/", "?"}}
    IN IF stops = {} THEN rest
       ELSE SubSeq(rest, 1, (CHOOSE i \in stops : \A j \in stops : i <= j) - 1)
HostAllowListed(url) ==
    /\ Len(url) >= 4 /\ SubSeq(url, 1, 3) = <<"s", "/", "/">>
    /\ Has(UrlHost(url), "D")

\* A qualifying tag: an img with an allow-listed src, an a with an
\* allow-listed href; and the URL it carries.
Qualifies(tok) ==
    /\ tok.kind = "starttag"
    /\ \/ tok.tag = "img" /\ "src" \in DOMAIN tok.attrs /\ HostAllowListed(tok.attrs["src"])
       \/ tok.tag = "a" /\ "href" \in DOMAIN tok.attrs /\ HostAllowListed(tok.attrs["href"])
TagUrl(tok) == IF tok.tag = "img" THEN tok.attrs["src"] ELSE tok.attrs["href"]

\* C21: markup whose start tags include N qualifying tags (img with an
\* allow-listed src, a with an allow-listed href) gives exactly N
\* attachments, in the order of the tags, the i-th with the URL and the tag
\* type of the i-th qualifying tag; other tags, and img/a tags without
\* src/href, contribute nothing.
ExtractionCountAndOrder ==
    (parser.pc = "returned" /\ ~parser.failed) =>
        LET q == SelectSeq(parser.html.tokens, Qualifies)
        IN /\ Len(parser.result) = Len(q)
           /\ \A i \in 1..Len(q) :
                 /\ i <= Len(parser.result)
                 /\ parser.result[i].url = TagUrl(q[i])
                 /\ parser.result[i].tag_type = q[i].tag

\* C22: no URL whose host is not allow-listed is in the output of the
\* extraction, whether it has an attachment domain in its path or query
\* string or not.
AllowListByHost ==
    /\ \A i \in 1..Len(parser.attachments) : HostAllowListed(parser.attachments[i].url)
    /\ \A i \in 1..Len(parser.result) : HostAllowListed(parser.result[i].url)

\* s occurs in u as a run of neighbours.
OccursIn(s, u) == \E i \in 0..(Len(u) - Len(s)) : SubSeq(u, i + 1, i + Len(s)) = s

\* C23: the file name of an attachment URL with a query string is the file
\* name of every URL that is the same up to the first "?": it does not
\* depend on the query string, and it is 'unknown_file' or a part of what
\* stands before the "?" (nothing of the query string is in it).
FilenameIgnoresQuery ==
    \A i \in 1..Len(parser.attachments) :
        LET url == parser.attachments[i].url
            filename == parser.attachments[i].filename
        IN /\ filename = ExtractFilename(url)
           /\ Has(url, "?") =>
                /\ \A q \in QueryInputs \ {<<>>} :
                      ExtractFilename(StripQuery(url) \o q) = filename
                /\ filename = <<"unknown_file">> \/ OccursIn(filename, StripQuery(url))

\* An attribute of the tag is present and parses as an integer.
AttrParses(tok, k) == k \in DOMAIN tok.attrs /\ IntParses(tok.attrs[k])

\* What C24 asks of the dimensions of the attachment att made of tag tok.
DimensionsOfTag(tok, att) ==
    IF tok.tag = "img" /\ (AttrParses(tok, "width") \/ AttrParses(tok, "height"))
    THEN /\ att.dimensions # NoDimensions
         /\ DOMAIN att.dimensions \subseteq {"width", "height"}
         /\ \A k \in {"width", "height"} :
               /\ k \in DOMAIN att.dimensions <=> AttrParses(tok, k)
               /\ AttrParses(tok, k) => att.dimensions[k] = IntValue(tok.attrs[k])
    ELSE att.dimensions = NoDimensions

\* C24: the dimensions of an attachment of an img tag have 'width' exactly
\* when the width attribute is there and parses as an integer, and 'height'
\* likewise; when neither is there or neither parses they are None, never
\* an empty map; the attachment of an a tag has None, whatever attributes
\* the tag has.
DimensionsWhenParsed ==
    /\ [](\A i \in 1..Len(parser.attachments) :
             /\ DOMAIN parser.attachments[i].dimensions # {}
             /\ parser.attachments[i].tag_type = "a" =>
                   parser.attachments[i].dimensions = NoDimensions)
    /\ [][(parser.pc = "feeding" /\ Len(parser'.attachments) = Len(parser.attachments) + 1) =>
             DimensionsOfTag(Token, parser'.attachments[Len(parser'.attachments)])]_vars

\* Witness of C24: an img whose width parses and whose height does not, then
\* an a tag with width and height.
DimensionsWhenParsedWitness ==
    /\ parser.pc = "returned"
    /\ Len(parser.result) = 2
    /\ parser.html.tokens[1].attrs = ("src" :> AssetUrl) @@ ("width" :> <<"1", "0">>)
                                        @@ ("height" :> <<"x">>)
    /\ DOMAIN parser.result[1].dimensions = {"width"}
    /\ parser.result[1].dimensions["width"] = 10
    /\ "width" \in DOMAIN parser.html.tokens[2].attrs
    /\ parser.result[2].tag_type = "a"
    /\ parser.result[2].dimensions = NoDimensions

\* C25: extract_attachments_from_html always returns: [] for html that is
\* None or empty, [] when feed raised at any point (whatever was found
\* before), and the attachments found otherwise.
ExtractFailSoft ==
    /\ parser.pc \in {"called", "feeding", "returned"}
    /\ parser.pc = "returned" =>
          /\ Falsy(parser.html) => parser.result = <<>>
          /\ parser.failed => parser.result = <<>>
          /\ ~parser.failed => parser.result = parser.attachments

\* Witness of C25: feed raised at the second token, after an attachment was
\* found in the first.
ExtractFailSoftWitness ==
    /\ parser.pc = "returned"
    /\ parser.failed
    /\ parser.pos = 2
    /\ Len(parser.attachments) = 1
    /\ parser.result = <<>>

----------------------------------------------------------------------------
(* collect-issue-stats.py, lines 119-133: the priority of an open issue      *)
(*                                                                         *)
(* A label name is a sequence of words; the words of the model are the four *)
(* priorities, in lower case and capitalised, and two others.               *)

\* str.lower() of a word and of a label name
LowerWord(w) ==
    CASE w = "Critical" -> "critical"
      [] w = "HIGH" -> "high"
      [] OTHER -> w
Lower(name) == [i \in 1..Len(name) |-> LowerWord(name[i])]

\* The label names of the issues.
LabelInputs ==
    {<<"critical">>, <<"high">>, <<"medium">>, <<"low">>, <<"bug">>,
     <<"priority", "HIGH">>, <<"Critical", "bug">>}

\* line 122: label_name = label['name'].lower(), of the label the loop is at
LabelName == Lower(stats.labels[stats.k])
InLabelLoop == stats.pc = "loop" /\ stats.k <= Len(stats.labels)

\* lines 123-125: 'critical' in label_name: the priority is set and the loop
\* is left.
PriorityCritical ==
    /\ InLabelLoop
    /\ Has(LabelName, "critical")
    /\ stats' = [stats EXCEPT !.priority = "critical", !.pc = "counting"]
    /\ UNCHANGED <<wvars, fvars, dvars, run, parser, fmt, gvars>>

\* lines 126-131: the elif chain of a label without 'critical'; the loop
\* goes on.
PriorityOfLabel ==
    /\ InLabelLoop
    /\ ~Has(LabelName, "critical")
    /\ stats' = [stats EXCEPT
                    !.k = @ + 1,
                    !.priority =
                        CASE Has(LabelName, "high") -> "high"
                          [] Has(LabelName, "medium") /\ @ = "unprioritized" -> "medium"
                          [] Has(LabelName, "low") /\ @ = "unprioritized" -> "low"
                          [] OTHER -> @]
    /\ UNCHANGED <<wvars, fvars, dvars, run, parser, fmt, gvars>>

\* line 121: the labels are exhausted.
LabelsExhausted ==
    /\ stats.pc = "loop"
    /\ stats.k > Len(stats.labels)
    /\ stats' = [stats EXCEPT !.pc = "counting"]
    /\ UNCHANGED <<wvars, fvars, dvars, run, parser, fmt, gvars>>

\* line 133: stats["open_issues"]["by_priority"][priority] += 1
PriorityCounted ==
    /\ stats.pc = "counting"
    /\ stats' = [stats EXCEPT !.pc = "done", !.by_priority[stats.priority] = @ + 1]
    /\ UNCHANGED <<wvars, fvars, dvars, run, parser, fmt, gvars>>

InitStats ==
    /\ WrapperNotEntered("_download_file")
    /\ FetchIdle
    /\ issue_data = NoIssueData /\ dl = DownloadNotStarted /\ fs = EmptyDisk /\ run = NoRun
    /\ parser = NoParser /\ fmt = NoFormat /\ GhIdle
    /\ \E labels \in UNION {[1..n -> LabelInputs] : n \in 0..MaxLabels} :
          stats = [NoStats EXCEPT !.pc = "loop", !.labels = labels, !.k = 1]

NextStats ==
    \/ PriorityCritical
    \/ PriorityOfLabel
    \/ LabelsExhausted
    \/ PriorityCounted

SpecStats == InitStats /\ [][NextStats]_vars

\* Some label name of the issue contains the word.
AnyLabelContains(word) ==
    \E i \in 1..Len(stats.labels) : Has(Lower(stats.labels[i]), word)

\* C27: the priority of an issue is 'critical' if any label name contains
\* 'critical', otherwise 'high' if any contains 'high', otherwise 'medium'
\* if any contains 'medium', otherwise 'low' if any contains 'low',
\* otherwise 'unprioritized', in whatever order the labels come: [low,
\* medium] and [medium, low] are both medium.
PriorityPrecedence ==
    stats.pc = "done" =>
        /\ stats.priority =
              CASE AnyLabelContains("critical") -> "critical"
                [] AnyLabelContains("high") -> "high"
                [] AnyLabelContains("medium") -> "medium"
                [] AnyLabelContains("low") -> "low"
                [] OTHER -> "unprioritized"
        /\ stats.by_priority[stats.priority] = 1


----------------------------------------------------------------------------
(* Specification of save_manifest, for every issue_data of a bounded size: *)
(* the attachments of the issue body and of one comment, with and without   *)
(* dimensions and with equal and different file names, and every outcome of *)
(* their downloads.                                                          *)

ManifestFilenames == {<<"a", ".", "p">>, <<"b", ".", "p">>}
\* What handle_starttag makes of a link, of an image with both sizes and of
\* an image with a height only
ManifestTags ==
    {[tag_type |-> "a", dimensions |-> NoDimensions],
     [tag_type |-> "img", dimensions |-> [width |-> 10, height |-> 20]],
     [tag_type |-> "img", dimensions |-> [height |-> 5]]}
ManifestAttachments ==
    {[url |-> <<"h", "/">> \o f, filename |-> f, file_type |-> <<"p">>,
      dimensions |-> t.dimensions, tag_type |-> t.tag_type] :
        f \in ManifestFilenames, t \in ManifestTags}
IssueAttachmentInputs == UNION {[1..n -> ManifestAttachments] : n \in 0..MaxBatch}
\* The attachments of the comment: none, or a link and an image of one file
\* name, either of them first
CommentAttachmentInputs ==
    {<<>>,
     <<[url |-> <<"h", "/", "a", ".", "p">>, filename |-> <<"a", ".", "p">>,
        file_type |-> <<"p">>, dimensions |-> NoDimensions, tag_type |-> "a"],
       [url |-> <<"h", "/", "a", ".", "p">>, filename |-> <<"a", ".", "p">>,
        file_type |-> <<"p">>, dimensions |-> [width |-> 10], tag_type |-> "img"]>>,
     <<[url |-> <<"h", "/", "a", ".", "p">>, filename |-> <<"a", ".", "p">>,
        file_type |-> <<"p">>, dimensions |-> [width |-> 10], tag_type |-> "img"],
       [url |-> <<"h", "/", "a", ".", "p">>, filename |-> <<"a", ".", "p">>,
        file_type |-> <<"p">>, dimensions |-> NoDimensions, tag_type |-> "a"]>>}

\* The record download_attachments appends for the attachment att of the
\* body source: that of a download of j bytes, or that of one that failed.
RecordOf(source, source_id, dir, att, j, ok) ==
    [source |-> source, source_id |-> source_id]
      @@ (IF ok THEN SuccessRecord(att.url, PathJoin(dir, att.filename), [i \in 1..j |-> "b"])
          ELSE FailureRecord(att.url, PathJoin(dir, att.filename), Exc("HTTPError", 404, 0)))

\* issue_data after download_attachments: oks[j] tells whether the j-th
\* download succeeded.
DownloadedIssueData(atts0, comments, oks) ==
    LET n0 == Len(atts0)
        catts == IF comments = <<>> THEN <<>> ELSE comments[1]._attachments
    IN [fetched |-> TRUE, _attachments |-> atts0, _comments |-> comments,
        _download_metadata |->
            [j \in 1..(n0 + Len(catts)) |->
                IF j <= n0
                THEN RecordOf("issue", 1, IssueAttachmentsDir, atts0[j], j, oks[j])
                ELSE RecordOf("comment", comments[1].comment_id,
                              CommentDir(comments[1].comment_id), catts[j - n0], j, oks[j])],
        has_download_metadata |-> TRUE]

\* issue_data of an issue without comments and without attachments, as run
\* leaves it (lines 975-995): neither key is set.
BareIssueData == [fetched |-> TRUE, _attachments |-> <<>>, has_download_metadata |-> FALSE]

ManifestInputs ==
    {BareIssueData}
    \cup {DownloadedIssueData(atts0, comments, oks) :
            atts0 \in IssueAttachmentInputs,
            comments \in {<<>>} \cup {<<[comment_id |-> 101, _attachments |-> c]>> :
                                         c \in CommentAttachmentInputs},
            oks \in [1..(MaxBatch + 2) -> BOOLEAN]}

RunSavingManifest ==
    [RunDownloading EXCEPT !.pc = "save_manifest",
                           !.phases = RunDownloading.phases \o <<"save_issue_data">>]

InitManifest ==
    /\ WrapperNotEntered("_download_file")
    /\ FetchIdle
    /\ issue_data \in ManifestInputs
    /\ dl = DownloadNotStarted
    /\ fs = [dirs |-> OutputDirs,
             files |-> (IssueJson :> [data |-> issue_data, writer |-> 0])]
    /\ run = RunSavingManifest
    /\ OthersIdle

NextManifest ==
    \/ SaveManifest
    \/ SaveManifestFails

SpecManifest == InitManifest /\ [][NextManifest]_vars

----------------------------------------------------------------------------
(* Properties of the manifest, checked under SpecManifest *)

\* The report written to manifest.md
ManifestWritten == ManifestMd \in DOMAIN fs.files
Manifest == fs.files[ManifestMd].data
ManifestLines(kind) == SelectSeq(Manifest, LAMBDA l : l.line = kind)
ManifestHas(kind) == ManifestLines(kind) # <<>>
SummaryValue(kind) == ManifestLines(kind)[1].value

\* C26: the report of an issue without comments and without attachments
\* (issue_data has neither '_comments' nor '_download_metadata') has the
\* summary with Total Comments 0, Total Attachments 0, Successfully
\* Downloaded 0 and Total Size '0 B', no attachment table and no comment
\* section.
EmptyManifest ==
    (ManifestWritten /\ "_comments" \notin DOMAIN issue_data
                     /\ ~issue_data.has_download_metadata)
        => /\ ManifestHas("summary")
           /\ SummaryValue("total_comments") = 0
           /\ SummaryValue("total_attachments") = 0
           /\ SummaryValue("successfully_downloaded") = 0
           /\ ManifestLines("total_size")[1].text = [value |-> 0, decimals |-> 0, unit |-> "B"]
           /\ ~ManifestHas("issue_attachments") /\ ~ManifestHas("comment_attachments")
           /\ ~ManifestHas("row")
           /\ ~ManifestHas("comments") /\ ~ManifestHas("comment")
EmptyManifestWitness ==
    /\ ManifestWritten
    /\ issue_data = BareIssueData
    /\ ManifestHas("total_size")

\* The attachments of the body a row belongs to
BodyAttachments(section) ==
    IF section = 0 THEN issue_data._attachments
    ELSE CommentsOf(issue_data)[section]._attachments
\* The places in the body of the attachments of that file name that carry
\* dimensions
Dimensioned(section, filename) ==
    {i \in 1..Len(BodyAttachments(section)) :
        /\ BodyAttachments(section)[i].filename = filename
        /\ BodyAttachments(section)[i].dimensions # NoDimensions}
First(S) == CHOOSE i \in S : \A j \in S : i <= j
\* A row whose file name is that of an attachment without dimensions that
\* comes before one with dimensions
LinkBeforeImage(row) ==
    /\ Dimensioned(row.section, row.filename) # {}
    /\ \E i \in 1..(First(Dimensioned(row.section, row.filename)) - 1) :
          BodyAttachments(row.section)[i].filename = row.filename

\* C28: the Dimensions cell of a row shows the dimensions of the first
\* attachment of the same body and file name that carries dimensions, also
\* when one without dimensions comes earlier; it is N/A if there is none.
DimensionLookup ==
    ManifestWritten =>
        \A k \in 1..Len(ManifestLines("row")) :
            LET row == ManifestLines("row")[k]
                found == Dimensioned(row.section, row.filename)
            IN IF found = {} THEN row.dimensions = NotAvailable
               ELSE row.dimensions =
                       [na |-> FALSE,
                        shown |-> BodyAttachments(row.section)[First(found)].dimensions]
DimensionLookupWitness ==
    /\ ManifestWritten
    /\ \E k \in 1..Len(ManifestLines("row")) :
          /\ LinkBeforeImage(ManifestLines("row")[k])
          /\ ~ManifestLines("row")[k].dimensions.na
    /\ \E k \in 1..Len(ManifestLines("row")) : ManifestLines("row")[k].dimensions.na

----------------------------------------------------------------------------
(* Specification of the size of a download: the download of one attachment, *)
(* and one call of format_file_size for sizes around each change of unit.   *)

Kibi == 1024
SizeInputs ==
    {0, 1, 2, 512, 1000, Kibi - 1, Kibi, Kibi + 1, 1075, 1280, 1434, 10 * Kibi,
     1000000, Kibi * Kibi - 52, Kibi * Kibi - 1, Kibi * Kibi, Kibi * Kibi + 1,
     Kibi * Kibi + Kibi * 512, 1000000000, Kibi * Kibi * Kibi - 52429,
     Kibi * Kibi * Kibi - 1, Kibi * Kibi * Kibi, Kibi * Kibi * Kibi + 1,
     Kibi * Kibi * Kibi + (Kibi * Kibi * Kibi - 1)}

\* lines 481-490: format_file_size returns the text.
FormatFileSizeReturns ==
    /\ fmt.pc = "called"
    /\ fmt' = [fmt EXCEPT !.pc = "returned", !.result = FormatFileSize(fmt.size_bytes)]
    /\ UNCHANGED <<wvars, fvars, dvars, run, parser, stats, gvars>>

InitSizes ==
    /\ WrapperNotEntered("_download_file")
    /\ FetchIdle
    /\ issue_data = IssueDataOf(1, <<>>, <<AttachmentAt(1)>>)
    /\ dl = DownloadNotStarted
    /\ fs = [dirs |-> OutputDirs, files |-> <<>>]
    /\ run = RunDownloading
    /\ parser = NoParser /\ stats = NoStats /\ GhIdle
    /\ \E n \in SizeInputs : fmt = [NoFormat EXCEPT !.pc = "called", !.size_bytes = n]

NextSizes ==
    \/ NextDownloads
    \/ FormatFileSizeReturns

SpecSizes == InitSizes /\ [][NextSizes]_vars

----------------------------------------------------------------------------
(* Properties of the sizes, checked under SpecSizes *)

\* The unit of n bytes
UnitOf(n) ==
    IF n < Kibi THEN "B"
    ELSE IF n < Kibi * Kibi THEN "KB"
    ELSE IF n < Kibi * Kibi * Kibi THEN "MB"
    ELSE "GB"

\* C29: the record of a successful download has as file_size_bytes the
\* number of bytes written to its destination and as file_size the text
\* format_file_size makes of it; the unit of that text is B below 1024, KB
\* from 1024, MB from 1024^2 and GB from 1024^3, and below 1024 the number
\* shown is the number of bytes itself.
SizeOfDownload ==
    /\ \A i \in 1..Len(dl.download_metadata) :
          LET m == dl.download_metadata[i]
          IN m.success =>
                /\ m.file_location \in DOMAIN fs.files
                /\ m.file_size_bytes = Len(fs.files[m.file_location].data)
                /\ m.file_size.unit = UnitOf(m.file_size_bytes)
                /\ m.file_size_bytes < Kibi =>
                      m.file_size.value = m.file_size_bytes /\ m.file_size.decimals = 0
    /\ fmt.pc = "returned" =>
          /\ fmt.result.unit = UnitOf(fmt.size_bytes)
          /\ fmt.size_bytes < Kibi =>
                fmt.result.value = fmt.size_bytes /\ fmt.result.decimals = 0
SizeOfDownloadWitness ==
    /\ fmt.pc = "returned" /\ fmt.size_bytes = Kibi /\ fmt.result.unit = "KB"
    /\ \E i \in 1..Len(dl.download_metadata) :
          /\ dl.download_metadata[i].success
          /\ dl.download_metadata[i].file_size_bytes > 0

----------------------------------------------------------------------------
(* A run whose steps are taken as long as one can be: the program is        *)
(* sequential and every request it makes ends (an answer, an error or the   *)
(* timeout), so a run that can take a step takes it.                        *)

SpecRunFair == SpecRun /\ WF_vars(NextRun)

\* The records of the downloads that failed, in a list of records
FailedRecords(metas) == SelectSeq(metas, LAMBDA m : ~m.success)

\* The run has saved both files and main has returned 0; issue.json and the
\* report hold the record of every download that failed.
SavedWithFailures ==
    /\ run.raised = NoException /\ run.exit_code = <<0>>
    /\ IssueJson \in DOMAIN fs.files /\ ManifestMd \in DOMAIN fs.files
    /\ fs.files[IssueJson].data.has_download_metadata
    /\ fs.files[IssueJson].data._download_metadata = dl.download_metadata
    /\ Len(FailedRecords(dl.download_metadata)) = dl.failed_count
    /\ Len(SelectSeq(fs.files[ManifestMd].data,
                     LAMBDA l : l.line = "row" /\ ~l.success)) = dl.failed_count
    /\ \E k \in 1..Len(fs.files[ManifestMd].data) :
          /\ fs.files[ManifestMd].data[k].line = "failed_downloads"
          /\ fs.files[ManifestMd].data[k].value = dl.failed_count

\* Writing issue.json or manifest.md raised OSError.
SaveFailed ==
    /\ run.raised.type = "OSError"
    /\ LastPhase \in {"save_issue_data", "save_manifest"}

\* C30: a download that fails leaves the run going; a run in which downloads
\* have failed (some or all) comes to its end, and unless the writing of
\* issue.json or manifest.md itself fails, it ends with both files written,
\* the records with success = false in them, and exit code 0.
FailedDownloadsDoNotStopRun ==
    /\ [][dl'.failed_count > dl.failed_count => run' = run]_vars
    /\ []((run.pc = "exit" /\ dl.failed_count > 0) => (SavedWithFailures \/ SaveFailed))
    /\ (dl.failed_count > 0) ~> (run.pc = "exit")
FailedDownloadsDoNotStopRunWitness ==
    /\ run.pc = "exit" /\ run.exit_code = <<0>>
    /\ dl.failed_count > 0 /\ dl.downloaded_count = 0
    /\ dl.failed_count = dl.total_attachments
    /\ SavedWithFailures

----------------------------------------------------------------------------
(* Specification of download_attachments for two attachments whose URLs     *)
(* differ and may derive one file name (two uploads called image.png), in   *)
(* one body or in two.                                                      *)

\* A second attachment: of the file name of the first, or of another one
SecondAttachments ==
    {[AttachmentAt(2) EXCEPT !.url = <<"h", "/", "b", "/", "a", ".", "p">>,
                             !.filename = AttachmentAt(1).filename],
     AttachmentAt(2)}

InitCollide ==
    /\ WrapperNotEntered("_download_file")
    /\ FetchIdle
    /\ \E second \in SecondAttachments :
          \E shape \in {<<2, <<>>>>, <<1, <<1>>>>, <<0, <<2>>>>, <<0, <<1, 1>>>>} :
              issue_data = IssueDataOf(shape[1], shape[2], <<AttachmentAt(1), second>>)
    /\ dl = DownloadNotStarted
    /\ fs = [dirs |-> OutputDirs, files |-> <<>>]
    /\ run = RunDownloading
    /\ OthersIdle

SpecCollide == InitCollide /\ [][NextDownloads]_vars

----------------------------------------------------------------------------
(* Properties of the files of the downloads, checked under SpecCollide *)

\* C31: at the end of download_attachments the file at the file_location of
\* every record with success = true holds the bytes fetched for that
\* record's own attachment: no two attachments were written to one path.
NoOverwrite ==
    dl.pc = "returned" =>
        \A i \in 1..Len(dl.download_metadata) :
            dl.download_metadata[i].success =>
                /\ dl.download_metadata[i].file_location \in DOMAIN fs.files
                /\ fs.files[dl.download_metadata[i].file_location].writer = i

----------------------------------------------------------------------------
(* Termination of fetch_comments_html, checked under SpecComments *)

\* fetch_comments_html has returned or raised.
CommentsTerminated == fpc \in {"returned", "raised"}
\* Every page the model has (1..MaxPages) had items and the marker: the loop
\* is about to request page MaxPages + 1.
BeyondPages == fpc = "loop" /\ page = MaxPages + 1
\* The last request of the log
LastRequest == http_log[Len(http_log)]

\* The steps a page can still take: the call, at most MAX_RETRIES requests
\* and the step that takes up their outcome.
StepsOfPage == MAX_RETRIES + 2
StepsLeftInPage ==
    IF fpc = "loop" THEN StepsOfPage
    ELSE IF fpc = "call" /\ wpc = "running" THEN MAX_RETRIES - attempt + 2
    ELSE IF fpc = "call" THEN 1
    ELSE 0
\* A bound on the steps fetch_comments_html can still take if no page up to
\* MaxPages stops it; 0 when it has ended.
StepsLeft ==
    IF CommentsTerminated THEN 0 ELSE (MaxPages - page) * StepsOfPage + StepsLeftInPage

\* C32: fetch_comments_html ends when a page is empty, lacks the marker or
\* fails for good, and only then. Every step it takes brings it nearer to
\* its end (the steps left, a natural number, go down with every step) and
\* it is never stuck before its end; while every page so far had items and
\* the marker it goes on to the next page, whatever its number; the
\* requests made are at most 5 times the number of the last page requested.
PaginationTerminates ==
    /\ [][StepsLeft' < StepsLeft]_vars
    /\ [](StepsLeft >= 0)
    /\ []((~CommentsTerminated /\ ~BeyondPages) => ENABLED NextComments)
    /\ [](Len(http_log) <= MAX_RETRIES * page)
    /\ []((fpc = "loop" /\ page > 1) => \A p \in 1..(page - 1) :
              p \in DOMAIN backend /\ Continuing(p))
    /\ [](fpc = "returned" =>
              /\ page \in DOMAIN backend /\ ~Continuing(page)
              /\ \A p \in 1..(page - 1) : Continuing(p))
    /\ [](fpc = "raised" => (~LastRequest.ok /\ LastRequest.page = page))
PaginationTerminatesWitness ==
    /\ fpc = "raised"
    /\ page = MaxPages
    /\ Len(http_log) = MAX_RETRIES * page
    /\ \A p \in 1..(page - 1) : Continuing(p)

----------------------------------------------------------------------------
(* Coverage of the manifest, checked under SpecRun *)

\* What a row and a record have in common
RowKey(r) == [filename |-> r.filename, file_location |-> r.file_location,
              success |-> r.success]
KeysOf(seq) == [i \in 1..Len(seq) |-> RowKey(seq[i])]
\* The rows of the table of section k (0: the issue body; idx: comment idx)
RowsOfSection(k) == SelectSeq(ManifestLines("row"), LAMBDA l : l.section = k)
\* The records of the issue body, and those of the comment of number idx
RecordsOfIssue == SelectSeq(issue_data._download_metadata, LAMBDA m : m.source = "issue")
RecordsOfComment(idx) ==
    SelectSeq(issue_data._download_metadata,
              LAMBDA m : m.source = "comment"
                            /\ m.source_id = issue_data._comments[idx].comment_id)
\* The number the summary gives for `kind` (0 if it has no such line)
SummaryCount(kind) == IF ManifestHas(kind) THEN SummaryValue(kind) ELSE 0

\* C33: in the manifest of a run every record is exactly one table row: the
\* rows of the issue table are the records of source 'issue', the rows of a
\* comment's table are the records of source 'comment' whose source_id is
\* that comment's id, and each such record belongs to one comment only;
\* Total Attachments is the number of rows and is Successfully Downloaded
\* plus the failed downloads.
ManifestCoverage ==
    (ManifestWritten /\ issue_data.has_download_metadata) =>
        /\ KeysOf(RowsOfSection(0)) = KeysOf(RecordsOfIssue)
        /\ \A idx \in 1..Len(issue_data._comments) :
              KeysOf(RowsOfSection(idx)) = KeysOf(RecordsOfComment(idx))
        /\ \A i \in 1..Len(issue_data._download_metadata) :
              LET m == issue_data._download_metadata[i]
              IN \/ m.source = "issue"
                 \/ /\ m.source = "comment"
                    /\ Cardinality({idx \in 1..Len(issue_data._comments) :
                                       issue_data._comments[idx].comment_id = m.source_id}) = 1
        /\ Len(ManifestLines("row")) = Len(issue_data._download_metadata)
        /\ SummaryValue("total_attachments") = Len(ManifestLines("row"))
        /\ SummaryValue("total_attachments")
              = SummaryValue("successfully_downloaded") + SummaryCount("failed_downloads")
        /\ SummaryCount("failed_downloads")
              = Len(SelectSeq(ManifestLines("row"), LAMBDA l : ~l.success))
ManifestCoverageWitness ==
    /\ ManifestWritten
    /\ RowsOfSection(0) # <<>>
    /\ \E idx \in 1..Len(issue_data._comments) : RowsOfSection(idx) # <<>>
    /\ SummaryCount("failed_downloads") > 0
    /\ SummaryValue("successfully_downloaded") > 0

----------------------------------------------------------------------------
(* Shape of the records and of the counters, checked under SpecDownloads *)

\* The path the i-th attachment of the discovery order is written to
DestinationOf(i) ==
    IF DiscoveryOrder[i].source = "issue"
    THEN PathJoin(IssueAttachmentsDir, DiscoveryOrder[i].attachment.filename)
    ELSE PathJoin(CommentDir(DiscoveryOrder[i].source_id),
                  DiscoveryOrder[i].attachment.filename)
SuccessfulRecords == SelectSeq(dl.download_metadata, LAMBDA m : m.success)

\* C34: a record has success = true exactly when its error is None; a record
\* of a failure has file_size_bytes = 0, file_size '0 B', file_type
\* 'unknown', a non-empty error and the file_location and filename of a
\* success; the counters satisfy downloaded + failed = total_attachments =
\* number of records, and total_size_bytes is the sum of file_size_bytes
\* over the successful records.
RecordShape ==
    /\ \A i \in 1..Len(dl.download_metadata) :
          LET m == dl.download_metadata[i]
          IN /\ m.success <=> m.error = NoError
             /\ m.file_location = DestinationOf(i)
             /\ m.filename = PathName(DestinationOf(i))
             /\ ~m.success =>
                   /\ m.file_size_bytes = 0
                   /\ m.file_size = [value |-> 0, decimals |-> 0, unit |-> "B"]
                   /\ m.file_type = <<"unknown">>
                   /\ m.error.text \notin {"", "None"}
    /\ dl.downloaded_count + dl.failed_count = dl.total_attachments
    /\ dl.total_attachments = Len(dl.download_metadata)
    /\ dl.downloaded_count = Len(SuccessfulRecords)
    /\ dl.total_size_bytes
          = SumSeq([i \in 1..Len(SuccessfulRecords) |-> SuccessfulRecords[i].file_size_bytes])
RecordShapeWitness ==
    /\ dl.pc = "returned"
    /\ dl.downloaded_count > 0 /\ dl.failed_count > 0
    /\ dl.total_size_bytes > 0
    /\ \E i \in 1..Len(dl.download_metadata) :
          /\ ~dl.download_metadata[i].success
          /\ dl.download_metadata[i].filename = <<"a", ".", "p">>

----------------------------------------------------------------------------
(* fetch-issues-matching.py. A command line is the sequence of its words;   *)
(* the repository, the issue number and the directories are words without   *)
(* blanks.                                                                  *)

\* fetch-issue-complete.py, lines 1038-1064: the four options, each with
\* required=True; the parser has no positional argument.
RequiredOptions == {"--repo", "--issue", "--output-dir", "--github-token"}

\* fetch-issue-complete.py, parse_arguments (lines 1027-1066): argparse takes
\* the command line if every required option is there with a value and no
\* word is left over; otherwise it prints the error and exits with status 2.
ArgvAccepted(argv) ==
    /\ \A o \in RequiredOptions :
          \E i \in 1..(Len(argv) - 1) : argv[i] = o /\ argv[i + 1] \notin RequiredOptions
    /\ \A i \in 1..Len(argv) :
          argv[i] \notin RequiredOptions => (i > 1 /\ argv[i - 1] \in RequiredOptions)

\* fetch-issue-complete.py, main (lines 1069-1100): the exit status of the
\* script for the words argv: 0, 1 or 3 of a run, 2 of argparse.
ChildExitCodes(argv) == IF ArgvAccepted(argv) THEN {0, 1, 3} ELSE {2}

\* lines 66-70: the places the script is looked for, in this order
ScriptPaths ==
    <<".ai-tools-resources/scripts/github-utils/fetch-issue-complete.py",
      "scripts/github-utils/fetch-issue-complete.py",
      "/tmp/fetch-issue-complete.py">>

\* lines 83 and 87: cmd = f"python3 {script} {repo} {issue_number} {issue_dir}"
IssueDir(output_dir, issue_number) == output_dir \o "/" \o ToString(issue_number)
Command(script, repo, issue_number, output_dir) ==
    <<"python3", script, repo, ToString(issue_number), IssueDir(output_dir, issue_number)>>
\* A variant that names the options of the script.
CommandWithOptions(script, repo, issue_number, output_dir) ==
    <<"python3", script, "--repo", repo, "--issue", ToString(issue_number),
      "--output-dir", IssueDir(output_dir, issue_number), "--github-token", "token">>
\* The words the script gets: those after "python3" and the script
ArgvOf(cmd) == SubSeq(cmd, 3, Len(cmd))

\* lines 149-152: neither GITHUB_TOKEN nor GH_TOKEN is set.
MatchingNoToken ==
    /\ matching.pc = "main" /\ ~matching.token_set
    /\ matching' = [matching EXCEPT !.pc = "exit", !.exit_code = <<1>>]
    /\ UNCHANGED <<wvars, fvars, dvars, run, parser, stats, fmt, gh>>

\* lines 161-166 and 26-59: fetch_matching_issues returns the issues gh
\* lists, or [] if gh fails or its output is no JSON.
MatchingList ==
    /\ matching.pc = "main" /\ matching.token_set
    /\ matching' = [matching EXCEPT !.pc = "listed",
                       !.issues = IF matching.listing.ok THEN matching.listing.issues
                                  ELSE <<>>]
    /\ UNCHANGED <<wvars, fvars, dvars, run, parser, stats, fmt, gh>>

\* lines 168-175: no issue; the empty manifest is written and main exits 0.
MatchingNoIssues ==
    /\ matching.pc = "listed" /\ matching.issues = <<>>
    /\ matching' = [matching EXCEPT !.pc = "exit", !.manifest = <<[total_issues |-> 0]>>,
                                    !.exit_code = <<0>>]
    /\ UNCHANGED <<wvars, fvars, dvars, run, parser, stats, fmt, gh>>

\* lines 188-201 and 62-90: fetch_issue_complete for the next issue. Without
\* a script it returns False; otherwise it runs the command and returns
\* whether the exit status rc of the script is 0.
MatchingFetchIssue ==
    /\ matching.pc = "listed" /\ matching.k < Len(matching.issues)
    /\ LET number == matching.issues[matching.k + 1]
           found == matching.scripts # {}
           script == ScriptPaths[CHOOSE i \in matching.scripts :
                                    \A j \in matching.scripts : i <= j]
           cmd == Command(script, "o/r", number, "issues")
       IN \E rc \in (IF found THEN ChildExitCodes(ArgvOf(cmd)) ELSE {-1}) :
             matching' = [matching EXCEPT
                 !.k = @ + 1,
                 !.commands = IF found THEN Append(@, cmd) ELSE @,
                 !.success_count = IF found /\ rc = 0 THEN @ + 1 ELSE @,
                 !.fail_count = IF found /\ rc = 0 THEN @ ELSE @ + 1]
    /\ UNCHANGED <<wvars, fvars, dvars, run, parser, stats, fmt, gh>>

\* lines 203-212: the manifest is written; exit 0 if no fetch failed, else 1.
MatchingExit ==
    /\ matching.pc = "listed" /\ matching.issues # <<>>
    /\ matching.k = Len(matching.issues)
    /\ matching' = [matching EXCEPT
           !.pc = "exit",
           !.manifest = <<[total_issues |-> Len(matching.issues)]>>,
           !.exit_code = <<IF matching.fail_count = 0 THEN 0 ELSE 1>>]
    /\ UNCHANGED <<wvars, fvars, dvars, run, parser, stats, fmt, gh>>

\* What `gh issue list` answers: an error, or up to MaxIssues issues
ListingInputs ==
    {[ok |-> FALSE, issues |-> <<>>]}
        \cup {[ok |-> TRUE, issues |-> [i \in 1..n |-> i]] : n \in 0..MaxIssues}

InitMatching ==
    /\ WrapperNotEntered("_download_file")
    /\ FetchIdle
    /\ issue_data = NoIssueData /\ dl = DownloadNotStarted /\ fs = EmptyDisk /\ run = NoRun
    /\ parser = NoParser /\ stats = NoStats /\ fmt = NoFormat /\ gh = NoGh
    /\ \E token_set \in BOOLEAN, scripts \in SUBSET (1..Len(ScriptPaths)),
          listing \in ListingInputs :
          matching = [NoMatching EXCEPT !.pc = "main", !.token_set = token_set,
                                        !.scripts = scripts, !.listing = listing]

NextMatching ==
    \/ MatchingNoToken
    \/ MatchingList
    \/ MatchingNoIssues
    \/ MatchingFetchIssue
    \/ MatchingExit

SpecMatching == InitMatching /\ [][NextMatching]_vars

----------------------------------------------------------------------------
(* Properties of fetch-issues-matching.py, checked under SpecMatching *)

\* C35: every command fetch-issues-matching runs for an issue names each
\* option fetch-issue-complete.py requires (--repo, --issue, --output-dir and
\* --github-token), so that the script takes its command line.
CommandSuppliesRequiredOptions ==
    \A i \in 1..Len(matching.commands) :
        /\ \A o \in RequiredOptions :
              \E j \in 1..Len(matching.commands[i]) : matching.commands[i][j] = o
        /\ ArgvAccepted(ArgvOf(matching.commands[i]))

\* As the code is, no fetch of an issue succeeds: main exits with 1 whenever
\* an issue matches.
MatchingNeverSucceeds ==
    (matching.pc = "exit" /\ matching.issues # <<>>) =>
        matching.success_count = 0 /\ matching.exit_code = <<1>>

----------------------------------------------------------------------------
(* collect-issue-stats.py, run_gh_command, lines 14-40 *)

\* line 14: the defaults of the parameters
max_attempts == 3
backoff_base == 2

\* What an execution of the command can come to: exit status 0 with JSON on
\* stdout ("null" is JSON too) or with other text, or another exit status.
GhAnswers ==
    {[returncode |-> 0, stdout |-> out] : out \in {"[]", "{}", "null", "not json"}}
        \cup {[returncode |-> rc, stdout |-> ""] : rc \in {1, 2, 4, 128}}
JsonTexts == {"[]", "{}", "null"}

\* lines 26-29: json.loads(result.stdout), None for a JSONDecodeError; the
\* value of the text "null" is None.
NoneResult == [none |-> TRUE, value |-> ""]
ParsedOrNone(stdout) ==
    IF stdout \in JsonTexts /\ stdout # "null" THEN [none |-> FALSE, value |-> stdout]
    ELSE NoneResult

\* A variant that starts the waits at backoff_base^0.
WaitTimeFromOne(a) == backoff_base ^ (a - 1)
\* line 36: wait_time = backoff_base ** attempt
WaitTime(a) == backoff_base ^ a

\* lines 17-29: the command exits with 0; its output is parsed and returned.
GhExitsZero ==
    /\ gh.pc = "loop"
    /\ \E r \in GhAnswers :
          /\ r.returncode = 0
          /\ gh' = [gh EXCEPT !.pc = "returned", !.answers = Append(@, r),
                              !.result = ParsedOrNone(r.stdout)]
    /\ UNCHANGED <<wvars, fvars, dvars, run, parser, stats, fmt, matching>>

\* lines 31-38: the command fails and attempts remain: sleep, next attempt.
GhFailsAndWaits ==
    /\ gh.pc = "loop" /\ gh.attempt # max_attempts
    /\ \E r \in GhAnswers :
          /\ r.returncode # 0
          /\ gh' = [gh EXCEPT !.answers = Append(@, r),
                              !.waits = Append(@, WaitTime(gh.attempt)),
                              !.attempt = @ + 1]
    /\ UNCHANGED <<wvars, fvars, dvars, run, parser, stats, fmt, matching>>

\* lines 31-34: the last attempt fails: the error is printed, None returned.
GhFailsLast ==
    /\ gh.pc = "loop" /\ gh.attempt = max_attempts
    /\ \E r \in GhAnswers :
          /\ r.returncode # 0
          /\ gh' = [gh EXCEPT !.pc = "returned", !.answers = Append(@, r),
                              !.result = NoneResult]
    /\ UNCHANGED <<wvars, fvars, dvars, run, parser, stats, fmt, matching>>

InitGh ==
    /\ WrapperNotEntered("_download_file")
    /\ FetchIdle
    /\ issue_data = NoIssueData /\ dl = DownloadNotStarted /\ fs = EmptyDisk /\ run = NoRun
    /\ parser = NoParser /\ stats = NoStats /\ fmt = NoFormat /\ matching = NoMatching
    /\ gh = [NoGh EXCEPT !.pc = "loop", !.attempt = 1]

NextGh ==
    \/ GhExitsZero
    \/ GhFailsAndWaits
    \/ GhFailsLast

SpecGh == InitGh /\ [][NextGh]_vars

----------------------------------------------------------------------------
(* Properties of run_gh_command, checked under SpecGh *)

GhFailed(i) == gh.answers[i].returncode # 0
GhLast == gh.answers[Len(gh.answers)]

\* C36: run_gh_command executes the command at most max_attempts (3) times;
\* after the failed attempt a < max_attempts it waits backoff_base^a seconds
\* (2, then 4) and it does not wait after the last attempt; the first
\* attempt that exits with 0 ends the loop and returns the parsed JSON, or
\* None if the output is no JSON, without another attempt; if all attempts
\* fail it returns None.
GhRetry ==
    /\ Len(gh.answers) <= max_attempts
    /\ \A i \in 1..(Len(gh.answers) - 1) : GhFailed(i)
    /\ Len(gh.waits) = Cardinality({i \in 1..Len(gh.answers) : GhFailed(i) /\ i < max_attempts})
    /\ \A a \in 1..Len(gh.waits) : gh.waits[a] = backoff_base ^ a
    /\ Len(gh.waits) >= 1 => gh.waits[1] = 2
    /\ Len(gh.waits) >= 2 => gh.waits[2] = 4
    /\ gh.pc = "loop" =>
          /\ Len(gh.answers) < max_attempts
          /\ gh.attempt = Len(gh.answers) + 1
          /\ \A i \in 1..Len(gh.answers) : GhFailed(i)
    /\ gh.pc = "returned" =>
          IF GhLast.returncode = 0
          THEN gh.result = (IF GhLast.stdout \in JsonTexts /\ GhLast.stdout # "null"
                            THEN [none |-> FALSE, value |-> GhLast.stdout]
                            ELSE NoneResult)
          ELSE Len(gh.answers) = max_attempts /\ gh.result = NoneResult
GhRetryWitness ==
    /\ gh.pc = "returned"
    /\ Len(gh.answers) = max_attempts
    /\ gh.waits = <<2, 4>>
    /\ GhLast.returncode = 0 /\ GhLast.stdout = "not json"
    /\ gh.result = NoneResult

----------------------------------------------------------------------------
(* collect-issue-stats.py, lines 52-167: the statistics of the open issues. *)
(* An item of the API's answer is an issue, a pull request (an issue with   *)
(* the key 'pull_request') or something that is no dict.                    *)

\* A variant that keeps the pull requests.
IsOpenIssueOrPull(item) == item.kind # "other"
\* line 62: isinstance(i, dict) and 'pull_request' not in i
IsOpenIssue(item) == item.kind = "issue"

\* lines 136-145: the age bucket of an issue that is age_days days old
AgeBucket(age_days) ==
    IF age_days < 1 THEN "new"
    ELSE IF age_days <= 7 THEN "recent"
    ELSE IF age_days <= 30 THEN "active"
    ELSE IF age_days <= 90 THEN "stale"
    ELSE "ancient"

\* lines 56-62 and 80-84: the pull requests are filtered out and the total
\* is taken.
StatsFiltered ==
    /\ stats.pc = "start"
    /\ stats' = [stats EXCEPT !.pc = "next",
                              !.open_issues = SelectSeq(stats.items, IsOpenIssue),
                              !.total = Len(SelectSeq(stats.items, IsOpenIssue))]
    /\ UNCHANGED <<wvars, fvars, dvars, run, parser, fmt, gvars>>

\* lines 115-121: the next open issue; its priority starts as unprioritized.
StatsNextIssue ==
    /\ stats.pc = "next" /\ stats.i < Len(stats.open_issues)
    /\ stats' = [stats EXCEPT !.pc = "loop", !.i = @ + 1,
                              !.labels = stats.open_issues[stats.i + 1].labels,
                              !.k = 1, !.priority = "unprioritized"]
    /\ UNCHANGED <<wvars, fvars, dvars, run, parser, fmt, gvars>>

\* lines 135-167: the age bucket is counted and the issue is appended to the
\* list of the open issues (the counts by area and type are not modelled).
StatsAgeCounted ==
    /\ stats.pc = "done" /\ stats.i > 0
    /\ stats' = [stats EXCEPT
           !.pc = "next",
           !.by_age[AgeBucket(stats.open_issues[stats.i].age_days)] = @ + 1,
           !.open = Append(@, [age_days |-> stats.open_issues[stats.i].age_days,
                               priority |-> stats.priority])]
    /\ UNCHANGED <<wvars, fvars, dvars, run, parser, fmt, gvars>>

\* line 115: the open issues are exhausted.
StatsFinished ==
    /\ stats.pc = "next" /\ stats.i = Len(stats.open_issues)
    /\ stats' = [stats EXCEPT !.pc = "finished"]
    /\ UNCHANGED <<wvars, fvars, dvars, run, parser, fmt, gvars>>

\* The items of the answer: issues of every age bucket and priority, a pull
\* request and a string
ItemInputs ==
    {[kind |-> "issue", labels |-> <<>>, age_days |-> 0],
     [kind |-> "issue", labels |-> <<<<"critical">>, <<"low">>>>, age_days |-> 7],
     [kind |-> "issue", labels |-> <<<<"low">>, <<"medium">>>>, age_days |-> 30],
     [kind |-> "issue", labels |-> <<<<"priority", "HIGH">>>>, age_days |-> 90],
     [kind |-> "issue", labels |-> <<<<"bug">>>>, age_days |-> 91],
     [kind |-> "issue", labels |-> <<>>, age_days |-> -1],
     [kind |-> "pull", labels |-> <<<<"high">>>>, age_days |-> 3],
     [kind |-> "other", labels |-> <<>>, age_days |-> 0]}

InitBuckets ==
    /\ WrapperNotEntered("_download_file")
    /\ FetchIdle
    /\ issue_data = NoIssueData /\ dl = DownloadNotStarted /\ fs = EmptyDisk /\ run = NoRun
    /\ parser = NoParser /\ fmt = NoFormat /\ GhIdle
    /\ \E items \in UNION {[1..n -> ItemInputs] : n \in 0..MaxIssues} :
          stats = [NoStats EXCEPT !.pc = "start", !.items = items]

NextBuckets ==
    \/ StatsFiltered
    \/ StatsNextIssue
    \/ NextStats
    \/ StatsAgeCounted
    \/ StatsFinished

SpecBuckets == InitBuckets /\ [][NextBuckets]_vars

----------------------------------------------------------------------------
(* Properties of the statistics, checked under SpecBuckets *)

Priorities == {"critical", "high", "medium", "low", "unprioritized"}
AgeBuckets == {"new", "recent", "active", "stale", "ancient"}
RECURSIVE SumOver(_, _)
SumOver(f, S) ==
    IF S = {} THEN 0 ELSE LET x == CHOOSE x \in S : TRUE IN f[x] + SumOver(f, S \ {x})
\* The open issues among the items: the pull requests and what is no dict
\* are left out.
IssuesAmongItems == {n \in 1..Len(stats.items) : stats.items[n].kind = "issue"}
\* The issues the loop has finished with
Processed == IF stats.pc \in {"next", "finished"} THEN stats.i ELSE stats.i - 1

\* C37: every open issue (pull requests excluded) is counted in exactly one
\* priority bucket and in exactly one age bucket: each issue the loop
\* finishes adds one to one bucket of either kind and one entry to the list
\* of open issues, so that after processing the by_priority counts and the
\* by_age counts both sum to open_issues.total, which is the number of open
\* issues, and the list has that many entries.
BucketInvariant ==
    /\ [][/\ \A b \in Priorities : stats'.by_priority[b] >= stats.by_priority[b]
          /\ \A b \in AgeBuckets : stats'.by_age[b] >= stats.by_age[b]]_vars
    /\ [](stats.pc \in {"next", "loop", "counting", "done", "finished"} =>
             /\ stats.total = Cardinality(IssuesAmongItems)
             /\ SumOver(stats.by_age, AgeBuckets) = Processed
             /\ Len(stats.open) = Processed
             /\ SumOver(stats.by_priority, Priorities)
                   = IF stats.pc = "done" THEN stats.i ELSE Processed)
    /\ [](stats.pc = "finished" =>
             /\ SumOver(stats.by_priority, Priorities) = stats.total
             /\ SumOver(stats.by_age, AgeBuckets) = stats.total
             /\ Len(stats.open) = stats.total)
BucketInvariantWitness ==
    /\ stats.pc = "finished"
    /\ stats.total = 2
    /\ Len(stats.items) = 3
    /\ \E n \in 1..3 : stats.items[n].kind = "pull"
    /\ stats.by_age["recent"] = 1 /\ stats.by_age["ancient"] = 1
    /\ stats.by_priority["critical"] = 1 /\ stats.by_priority["unprioritized"] = 1

====
